---- MODULE Spec2Model ----
(***************************************************************************)
(* A model of organize_and_rename_files.py: the date-resolution pipeline   *)
(* (EXIF / ffprobe metadata, then filename patterns), the placement of a   *)
(* file under ORGANIZED_FOLDER/<year>/ or SKIPPED_FOLDER, and the          *)
(* os.walk traversal of main().                                            *)
(*                                                                         *)
(* Text is a sequence of one-character strings; a path is a sequence of    *)
(* path components, each of them text.  A datetime is a record of its six  *)
(* fields; Python's None is the record None.  A character outside ASCII is *)
(* written by its code point, "U+0663" for ARABIC-INDIC DIGIT THREE; chr   *)
(* and ord relate the characters and their code points.                    *)
(***************************************************************************)
EXTENDS Integers, Sequences, FiniteSets, TLC

\* LET x == v IN F(x), with v worked out once
Let(v, F(_)) == CHOOSE r \in {F(x) : x \in {v}} : TRUE

Let2(v, w, F(_, _)) == CHOOSE r \in {F(x, y) : x \in {v}, y \in {w}} : TRUE

\* ------------------------------------------------------------ characters

\* the printable ASCII characters, U+0020 .. U+007E, by code point (the
\* grave accent, which no string of the module can hold, by its number)
Printable ==
    <<" ", "!", "\"", "#", "$", "%", "&", "'", "(", ")", "*", "+", ",", "-", ".",
      "/", "0", "1", "2", "3", "4", "5", "6", "7", "8", "9", ":", ";", "<", "=",
      ">", "?", "@", "A", "B", "C", "D", "E", "F", "G", "H", "I", "J", "K", "L",
      "M", "N", "O", "P", "Q", "R", "S", "T", "U", "V", "W", "X", "Y", "Z", "[",
      "\\", "]", "^", "_", "U+0060", "a", "b", "c", "d", "e", "f", "g", "h", "i",
      "j", "k", "l", "m", "n", "o", "p", "q", "r", "s", "t", "u", "v", "w", "x",
      "y", "z", "{", "|", "}", "~">>

HexChars == <<"0", "1", "2", "3", "4", "5", "6", "7", "8", "9",
              "A", "B", "C", "D", "E", "F">>

\* a natural number in hexadecimal
RECURSIVE HexText(_)
HexText(n) ==
    IF n < 16 THEN HexChars[n + 1]
    ELSE HexText(n \div 16) \o HexChars[(n % 16) + 1]

\* the character with code point n as the model writes it: itself when it
\* is printable ASCII or has an escape, else U+ and at least four hex digits
chr(n) ==
    IF n \in 32..126 THEN Printable[n - 31]
    ELSE IF n = 9 THEN "\t"
    ELSE IF n = 10 THEN "\n"
    ELSE IF n = 12 THEN "\f"
    ELSE IF n = 13 THEN "\r"
    ELSE "U+" \o (IF n < 16 THEN "000" ELSE IF n < 256 THEN "00"
                  ELSE IF n < 4096 THEN "0" ELSE "") \o HexText(n)

\* the number a string of hexadecimal digits writes
RECURSIVE FromHex(_)
FromHex(h) ==
    IF Len(h) = 0 THEN 0
    ELSE 16 * FromHex(SubSeq(h, 1, Len(h) - 1))
         + (CHOOSE v \in 0..15 : HexChars[v + 1] = SubSeq(h, Len(h), Len(h)))

\* the code point of a character
ord(c) ==
    IF Len(c) > 1 THEN FromHex(SubSeq(c, 3, Len(c)))
    ELSE IF c = "\t" THEN 9
    ELSE IF c = "\n" THEN 10
    ELSE IF c = "\f" THEN 12
    ELSE IF c = "\r" THEN 13
    ELSE 31 + (CHOOSE i \in 1..95 : Printable[i] = c)

\* the characters whose code points lie in one of the ranges <<first, last>>
CharsOf(ranges) == UNION {{chr(n) : n \in r[1]..r[2]} : r \in ranges}

\* ------------------------------------------------------------------ text

DigitChars == <<"0", "1", "2", "3", "4", "5", "6", "7", "8", "9">>

\* the characters [0-9] of a pattern matches
AsciiDigits == {DigitChars[i] : i \in 1..10}

\* the ASCII digits from lo to hi: the class [lo-hi] of a pattern
AsciiRange(lo, hi) == {DigitChars[i + 1] : i \in lo..hi}

\* The decimal digits of Unicode 14.0.0 (category Nd), the version CPython
\* 3.11 is built with: 66 runs of ten consecutive code points, the digits
\* 0..9 of one script in the order of their values.  The code point of each
\* run's digit zero:
NdZeros ==
    {\h0030, \h0660, \h06F0, \h07C0, \h0966, \h09E6, \h0A66, \h0AE6, \h0B66, \h0BE6,
    \h0C66, \h0CE6, \h0D66, \h0DE6, \h0E50, \h0ED0, \h0F20, \h1040, \h1090, \h17E0,
    \h1810, \h1946, \h19D0, \h1A80, \h1A90, \h1B50, \h1BB0, \h1C40, \h1C50, \hA620,
    \hA8D0, \hA900, \hA9D0, \hA9F0, \hAA50, \hABF0, \hFF10, \h104A0, \h10D30, \h11066,
    \h110F0, \h11136, \h111D0, \h112F0, \h11450, \h114D0, \h11650, \h116C0, \h11730,
    \h118E0, \h11950, \h11C50, \h11D50, \h11DA0, \h16A60, \h16AC0, \h16B50, \h1D7CE,
    \h1D7D8, \h1D7E2, \h1D7EC, \h1D7F6, \h1E140, \h1E2F0, \h1E950, \h1FBF0}

\* the characters \d of a str pattern matches: every decimal digit
Digits == UNION {{chr(z + i) : i \in 0..9} : z \in NdZeros}

\* the value of each decimal digit: its distance from the zero of its run
DigitValue ==
    [c \in Digits |->
        Let(ord(c), LAMBDA n : n - (CHOOSE z \in NdZeros : n \in z..(z + 9)))]

\* int() of one decimal digit
DigitVal(c) == DigitValue[c]

\* the characters \s of a str pattern matches (str.isspace)
Whitespace ==
    {" ", "\t", "\n", "\r", "\f", "U+000B", "U+001C", "U+001D", "U+001E", "U+001F",
     "U+0085", "U+00A0", "U+1680", "U+2000", "U+2001", "U+2002", "U+2003", "U+2004",
     "U+2005", "U+2006", "U+2007", "U+2008", "U+2009", "U+200A", "U+2028", "U+2029",
     "U+202F", "U+205F", "U+3000"}

\* int() of a text made of decimal digits
RECURSIVE ToInt(_)
ToInt(s) ==
    IF s = <<>> THEN 0
    ELSE 10 * ToInt(SubSeq(s, 1, Len(s) - 1)) + DigitVal(s[Len(s)])

AllDigits(s) == \A i \in 1..Len(s) : s[i] \in Digits

\* Python's s[a:b] with 0 <= a <= b, as the code uses it
Slice(s, a, b) == SubSeq(s, a + 1, IF b < Len(s) THEN b ELSE Len(s))

\* decimal rendering of a natural number, no padding
RECURSIVE Decimal(_)
Decimal(n) ==
    IF n < 10 THEN <<DigitChars[n + 1]>>
    ELSE Decimal(n \div 10) \o <<DigitChars[(n % 10) + 1]>>

\* decimal rendering zero-padded to at least w characters
RECURSIVE ZeroPad(_, _)
ZeroPad(n, w) ==
    LET d == Decimal(n) IN
    IF Len(d) >= w THEN d
    ELSE [i \in 1..w |-> IF i <= w - Len(d) THEN "0" ELSE d[i - (w - Len(d))]]

\* ------------------------------------------------------------ str.lower

\* The simple lower-case mapping of Unicode 14.0.0: a run
\* <<first, last, step, delta>> maps the code points first, first + step,
\* .., last to themselves plus delta.  Every other character but U+0130 and
\* U+03A3 is its own lower case.
ToLowerRuns ==
    <<<<\h0041, \h005A, 1, 32>>, <<\h00C0, \h00D6, 1, 32>>, <<\h00D8, \h00DE, 1, 32>>,
    <<\h0100, \h012E, 2, 1>>, <<\h0132, \h0136, 2, 1>>, <<\h0139, \h0147, 2, 1>>,
    <<\h014A, \h0176, 2, 1>>, <<\h0178, \h0178, 1, -121>>, <<\h0179, \h017D, 2, 1>>,
    <<\h0181, \h0181, 1, 210>>, <<\h0182, \h0184, 2, 1>>, <<\h0186, \h0186, 1, 206>>,
    <<\h0187, \h0187, 1, 1>>, <<\h0189, \h018A, 1, 205>>, <<\h018B, \h018B, 1, 1>>,
    <<\h018E, \h018E, 1, 79>>, <<\h018F, \h018F, 1, 202>>, <<\h0190, \h0190, 1, 203>>,
    <<\h0191, \h0191, 1, 1>>, <<\h0193, \h0193, 1, 205>>, <<\h0194, \h0194, 1, 207>>,
    <<\h0196, \h0196, 1, 211>>, <<\h0197, \h0197, 1, 209>>, <<\h0198, \h0198, 1, 1>>,
    <<\h019C, \h019C, 1, 211>>, <<\h019D, \h019D, 1, 213>>, <<\h019F, \h019F, 1,
    214>>, <<\h01A0, \h01A4, 2, 1>>, <<\h01A6, \h01A6, 1, 218>>, <<\h01A7, \h01A7, 1,
    1>>, <<\h01A9, \h01A9, 1, 218>>, <<\h01AC, \h01AC, 1, 1>>, <<\h01AE, \h01AE, 1,
    218>>, <<\h01AF, \h01AF, 1, 1>>, <<\h01B1, \h01B2, 1, 217>>, <<\h01B3, \h01B5, 2,
    1>>, <<\h01B7, \h01B7, 1, 219>>, <<\h01B8, \h01B8, 1, 1>>, <<\h01BC, \h01BC, 1,
    1>>, <<\h01C4, \h01C4, 1, 2>>, <<\h01C5, \h01C5, 1, 1>>, <<\h01C7, \h01C7, 1, 2>>,
    <<\h01C8, \h01C8, 1, 1>>, <<\h01CA, \h01CA, 1, 2>>, <<\h01CB, \h01DB, 2, 1>>,
    <<\h01DE, \h01EE, 2, 1>>, <<\h01F1, \h01F1, 1, 2>>, <<\h01F2, \h01F4, 2, 1>>,
    <<\h01F6, \h01F6, 1, -97>>, <<\h01F7, \h01F7, 1, -56>>, <<\h01F8, \h021E, 2, 1>>,
    <<\h0220, \h0220, 1, -130>>, <<\h0222, \h0232, 2, 1>>, <<\h023A, \h023A, 1,
    10795>>, <<\h023B, \h023B, 1, 1>>, <<\h023D, \h023D, 1, -163>>, <<\h023E, \h023E,
    1, 10792>>, <<\h0241, \h0241, 1, 1>>, <<\h0243, \h0243, 1, -195>>, <<\h0244,
    \h0244, 1, 69>>, <<\h0245, \h0245, 1, 71>>, <<\h0246, \h024E, 2, 1>>, <<\h0370,
    \h0372, 2, 1>>, <<\h0376, \h0376, 1, 1>>, <<\h037F, \h037F, 1, 116>>, <<\h0386,
    \h0386, 1, 38>>, <<\h0388, \h038A, 1, 37>>, <<\h038C, \h038C, 1, 64>>, <<\h038E,
    \h038F, 1, 63>>, <<\h0391, \h03A1, 1, 32>>, <<\h03A3, \h03AB, 1, 32>>, <<\h03CF,
    \h03CF, 1, 8>>, <<\h03D8, \h03EE, 2, 1>>, <<\h03F4, \h03F4, 1, -60>>, <<\h03F7,
    \h03F7, 1, 1>>, <<\h03F9, \h03F9, 1, -7>>, <<\h03FA, \h03FA, 1, 1>>, <<\h03FD,
    \h03FF, 1, -130>>, <<\h0400, \h040F, 1, 80>>, <<\h0410, \h042F, 1, 32>>, <<\h0460,
    \h0480, 2, 1>>, <<\h048A, \h04BE, 2, 1>>, <<\h04C0, \h04C0, 1, 15>>, <<\h04C1,
    \h04CD, 2, 1>>, <<\h04D0, \h052E, 2, 1>>, <<\h0531, \h0556, 1, 48>>, <<\h10A0,
    \h10C5, 1, 7264>>, <<\h10C7, \h10C7, 1, 7264>>, <<\h10CD, \h10CD, 1, 7264>>,
    <<\h13A0, \h13EF, 1, 38864>>, <<\h13F0, \h13F5, 1, 8>>, <<\h1C90, \h1CBA, 1,
    -3008>>, <<\h1CBD, \h1CBF, 1, -3008>>, <<\h1E00, \h1E94, 2, 1>>, <<\h1E9E, \h1E9E,
    1, -7615>>, <<\h1EA0, \h1EFE, 2, 1>>, <<\h1F08, \h1F0F, 1, -8>>, <<\h1F18, \h1F1D,
    1, -8>>, <<\h1F28, \h1F2F, 1, -8>>, <<\h1F38, \h1F3F, 1, -8>>, <<\h1F48, \h1F4D,
    1, -8>>, <<\h1F59, \h1F5F, 2, -8>>, <<\h1F68, \h1F6F, 1, -8>>, <<\h1F88, \h1F8F,
    1, -8>>, <<\h1F98, \h1F9F, 1, -8>>, <<\h1FA8, \h1FAF, 1, -8>>, <<\h1FB8, \h1FB9,
    1, -8>>, <<\h1FBA, \h1FBB, 1, -74>>, <<\h1FBC, \h1FBC, 1, -9>>, <<\h1FC8, \h1FCB,
    1, -86>>, <<\h1FCC, \h1FCC, 1, -9>>, <<\h1FD8, \h1FD9, 1, -8>>, <<\h1FDA, \h1FDB,
    1, -100>>, <<\h1FE8, \h1FE9, 1, -8>>, <<\h1FEA, \h1FEB, 1, -112>>, <<\h1FEC,
    \h1FEC, 1, -7>>, <<\h1FF8, \h1FF9, 1, -128>>, <<\h1FFA, \h1FFB, 1, -126>>,
    <<\h1FFC, \h1FFC, 1, -9>>, <<\h2126, \h2126, 1, -7517>>, <<\h212A, \h212A, 1,
    -8383>>, <<\h212B, \h212B, 1, -8262>>, <<\h2132, \h2132, 1, 28>>, <<\h2160,
    \h216F, 1, 16>>, <<\h2183, \h2183, 1, 1>>, <<\h24B6, \h24CF, 1, 26>>, <<\h2C00,
    \h2C2F, 1, 48>>, <<\h2C60, \h2C60, 1, 1>>, <<\h2C62, \h2C62, 1, -10743>>,
    <<\h2C63, \h2C63, 1, -3814>>, <<\h2C64, \h2C64, 1, -10727>>, <<\h2C67, \h2C6B, 2,
    1>>, <<\h2C6D, \h2C6D, 1, -10780>>, <<\h2C6E, \h2C6E, 1, -10749>>, <<\h2C6F,
    \h2C6F, 1, -10783>>, <<\h2C70, \h2C70, 1, -10782>>, <<\h2C72, \h2C72, 1, 1>>,
    <<\h2C75, \h2C75, 1, 1>>, <<\h2C7E, \h2C7F, 1, -10815>>, <<\h2C80, \h2CE2, 2, 1>>,
    <<\h2CEB, \h2CED, 2, 1>>, <<\h2CF2, \h2CF2, 1, 1>>, <<\hA640, \hA66C, 2, 1>>,
    <<\hA680, \hA69A, 2, 1>>, <<\hA722, \hA72E, 2, 1>>, <<\hA732, \hA76E, 2, 1>>,
    <<\hA779, \hA77B, 2, 1>>, <<\hA77D, \hA77D, 1, -35332>>, <<\hA77E, \hA786, 2, 1>>,
    <<\hA78B, \hA78B, 1, 1>>, <<\hA78D, \hA78D, 1, -42280>>, <<\hA790, \hA792, 2, 1>>,
    <<\hA796, \hA7A8, 2, 1>>, <<\hA7AA, \hA7AA, 1, -42308>>, <<\hA7AB, \hA7AB, 1,
    -42319>>, <<\hA7AC, \hA7AC, 1, -42315>>, <<\hA7AD, \hA7AD, 1, -42305>>, <<\hA7AE,
    \hA7AE, 1, -42308>>, <<\hA7B0, \hA7B0, 1, -42258>>, <<\hA7B1, \hA7B1, 1, -42282>>,
    <<\hA7B2, \hA7B2, 1, -42261>>, <<\hA7B3, \hA7B3, 1, 928>>, <<\hA7B4, \hA7C2, 2,
    1>>, <<\hA7C4, \hA7C4, 1, -48>>, <<\hA7C5, \hA7C5, 1, -42307>>, <<\hA7C6, \hA7C6,
    1, -35384>>, <<\hA7C7, \hA7C9, 2, 1>>, <<\hA7D0, \hA7D0, 1, 1>>, <<\hA7D6, \hA7D8,
    2, 1>>, <<\hA7F5, \hA7F5, 1, 1>>, <<\hFF21, \hFF3A, 1, 32>>, <<\h10400, \h10427,
    1, 40>>, <<\h104B0, \h104D3, 1, 40>>, <<\h10570, \h1057A, 1, 39>>, <<\h1057C,
    \h1058A, 1, 39>>, <<\h1058C, \h10592, 1, 39>>, <<\h10594, \h10595, 1, 39>>,
    <<\h10C80, \h10CB2, 1, 64>>, <<\h118A0, \h118BF, 1, 32>>, <<\h16E40, \h16E5F, 1,
    32>>, <<\h1E900, \h1E921, 1, 34>>>>

\* the code points of a run
RunMembers(r) == {r[1] + k * r[3] : k \in 0..((r[2] - r[1]) \div r[3])}

\* the characters the simple mapping changes
Uppercase ==
    UNION {{chr(n) : n \in RunMembers(ToLowerRuns[k])} : k \in DOMAIN ToLowerRuns}

\* the lower case of a code point of a run
ToLowerOf(n) ==
    n + ToLowerRuns[CHOOSE k \in DOMAIN ToLowerRuns :
                        n \in RunMembers(ToLowerRuns[k])][4]

ToLower == [c \in Uppercase |-> Let(ord(c), LAMBDA n : chr(ToLowerOf(n)))]

\* the lower case of a character whose lower case is one character
LowerChar(c) == IF c \in Uppercase THEN ToLower[c] ELSE c

\* the lower case of one character: LATIN CAPITAL LETTER I WITH DOT ABOVE
\* becomes two characters, i and COMBINING DOT ABOVE
LowerText(c) == IF c = "U+0130" THEN <<"i", "U+0307">> ELSE <<LowerChar(c)>>

\* the characters with the property Cased, as ranges of code points
CasedRanges ==
    {<<\h0041, \h005A>>, <<\h0061, \h007A>>, <<\h00AA, \h00AA>>, <<\h00B5, \h00B5>>,
    <<\h00BA, \h00BA>>, <<\h00C0, \h00D6>>, <<\h00D8, \h00F6>>, <<\h00F8, \h01BA>>,
    <<\h01BC, \h01BF>>, <<\h01C4, \h0293>>, <<\h0295, \h02B8>>, <<\h02C0, \h02C1>>,
    <<\h02E0, \h02E4>>, <<\h0345, \h0345>>, <<\h0370, \h0373>>, <<\h0376, \h0377>>,
    <<\h037A, \h037D>>, <<\h037F, \h037F>>, <<\h0386, \h0386>>, <<\h0388, \h038A>>,
    <<\h038C, \h038C>>, <<\h038E, \h03A1>>, <<\h03A3, \h03F5>>, <<\h03F7, \h0481>>,
    <<\h048A, \h052F>>, <<\h0531, \h0556>>, <<\h0560, \h0588>>, <<\h10A0, \h10C5>>,
    <<\h10C7, \h10C7>>, <<\h10CD, \h10CD>>, <<\h10D0, \h10FA>>, <<\h10FD, \h10FF>>,
    <<\h13A0, \h13F5>>, <<\h13F8, \h13FD>>, <<\h1C80, \h1C88>>, <<\h1C90, \h1CBA>>,
    <<\h1CBD, \h1CBF>>, <<\h1D00, \h1DBF>>, <<\h1E00, \h1F15>>, <<\h1F18, \h1F1D>>,
    <<\h1F20, \h1F45>>, <<\h1F48, \h1F4D>>, <<\h1F50, \h1F57>>, <<\h1F59, \h1F59>>,
    <<\h1F5B, \h1F5B>>, <<\h1F5D, \h1F5D>>, <<\h1F5F, \h1F7D>>, <<\h1F80, \h1FB4>>,
    <<\h1FB6, \h1FBC>>, <<\h1FBE, \h1FBE>>, <<\h1FC2, \h1FC4>>, <<\h1FC6, \h1FCC>>,
    <<\h1FD0, \h1FD3>>, <<\h1FD6, \h1FDB>>, <<\h1FE0, \h1FEC>>, <<\h1FF2, \h1FF4>>,
    <<\h1FF6, \h1FFC>>, <<\h2071, \h2071>>, <<\h207F, \h207F>>, <<\h2090, \h209C>>,
    <<\h2102, \h2102>>, <<\h2107, \h2107>>, <<\h210A, \h2113>>, <<\h2115, \h2115>>,
    <<\h2119, \h211D>>, <<\h2124, \h2124>>, <<\h2126, \h2126>>, <<\h2128, \h2128>>,
    <<\h212A, \h212D>>, <<\h212F, \h2134>>, <<\h2139, \h2139>>, <<\h213C, \h213F>>,
    <<\h2145, \h2149>>, <<\h214E, \h214E>>, <<\h2160, \h217F>>, <<\h2183, \h2184>>,
    <<\h24B6, \h24E9>>, <<\h2C00, \h2CE4>>, <<\h2CEB, \h2CEE>>, <<\h2CF2, \h2CF3>>,
    <<\h2D00, \h2D25>>, <<\h2D27, \h2D27>>, <<\h2D2D, \h2D2D>>, <<\hA640, \hA66D>>,
    <<\hA680, \hA69D>>, <<\hA722, \hA787>>, <<\hA78B, \hA78E>>, <<\hA790, \hA7CA>>,
    <<\hA7D0, \hA7D1>>, <<\hA7D3, \hA7D3>>, <<\hA7D5, \hA7D9>>, <<\hA7F5, \hA7F6>>,
    <<\hA7F8, \hA7FA>>, <<\hAB30, \hAB5A>>, <<\hAB5C, \hAB68>>, <<\hAB70, \hABBF>>,
    <<\hFB00, \hFB06>>, <<\hFB13, \hFB17>>, <<\hFF21, \hFF3A>>, <<\hFF41, \hFF5A>>,
    <<\h10400, \h1044F>>, <<\h104B0, \h104D3>>, <<\h104D8, \h104FB>>, <<\h10570,
    \h1057A>>, <<\h1057C, \h1058A>>, <<\h1058C, \h10592>>, <<\h10594, \h10595>>,
    <<\h10597, \h105A1>>, <<\h105A3, \h105B1>>, <<\h105B3, \h105B9>>, <<\h105BB,
    \h105BC>>, <<\h10780, \h10780>>, <<\h10783, \h10785>>, <<\h10787, \h107B0>>,
    <<\h107B2, \h107BA>>, <<\h10C80, \h10CB2>>, <<\h10CC0, \h10CF2>>, <<\h118A0,
    \h118DF>>, <<\h16E40, \h16E7F>>, <<\h1D400, \h1D454>>, <<\h1D456, \h1D49C>>,
    <<\h1D49E, \h1D49F>>, <<\h1D4A2, \h1D4A2>>, <<\h1D4A5, \h1D4A6>>, <<\h1D4A9,
    \h1D4AC>>, <<\h1D4AE, \h1D4B9>>, <<\h1D4BB, \h1D4BB>>, <<\h1D4BD, \h1D4C3>>,
    <<\h1D4C5, \h1D505>>, <<\h1D507, \h1D50A>>, <<\h1D50D, \h1D514>>, <<\h1D516,
    \h1D51C>>, <<\h1D51E, \h1D539>>, <<\h1D53B, \h1D53E>>, <<\h1D540, \h1D544>>,
    <<\h1D546, \h1D546>>, <<\h1D54A, \h1D550>>, <<\h1D552, \h1D6A5>>, <<\h1D6A8,
    \h1D6C0>>, <<\h1D6C2, \h1D6DA>>, <<\h1D6DC, \h1D6FA>>, <<\h1D6FC, \h1D714>>,
    <<\h1D716, \h1D734>>, <<\h1D736, \h1D74E>>, <<\h1D750, \h1D76E>>, <<\h1D770,
    \h1D788>>, <<\h1D78A, \h1D7A8>>, <<\h1D7AA, \h1D7C2>>, <<\h1D7C4, \h1D7CB>>,
    <<\h1DF00, \h1DF09>>, <<\h1DF0B, \h1DF1E>>, <<\h1E900, \h1E943>>, <<\h1F130,
    \h1F149>>, <<\h1F150, \h1F169>>, <<\h1F170, \h1F189>>}

\* the characters with the property Case_Ignorable, as ranges of code points
CaseIgnorableRanges ==
    {<<\h0027, \h0027>>, <<\h002E, \h002E>>, <<\h003A, \h003A>>, <<\h005E, \h005E>>,
    <<\h0060, \h0060>>, <<\h00A8, \h00A8>>, <<\h00AD, \h00AD>>, <<\h00AF, \h00AF>>,
    <<\h00B4, \h00B4>>, <<\h00B7, \h00B8>>, <<\h02B0, \h036F>>, <<\h0374, \h0375>>,
    <<\h037A, \h037A>>, <<\h0384, \h0385>>, <<\h0387, \h0387>>, <<\h0483, \h0489>>,
    <<\h0559, \h0559>>, <<\h055F, \h055F>>, <<\h0591, \h05BD>>, <<\h05BF, \h05BF>>,
    <<\h05C1, \h05C2>>, <<\h05C4, \h05C5>>, <<\h05C7, \h05C7>>, <<\h05F4, \h05F4>>,
    <<\h0600, \h0605>>, <<\h0610, \h061A>>, <<\h061C, \h061C>>, <<\h0640, \h0640>>,
    <<\h064B, \h065F>>, <<\h0670, \h0670>>, <<\h06D6, \h06DD>>, <<\h06DF, \h06E8>>,
    <<\h06EA, \h06ED>>, <<\h070F, \h070F>>, <<\h0711, \h0711>>, <<\h0730, \h074A>>,
    <<\h07A6, \h07B0>>, <<\h07EB, \h07F5>>, <<\h07FA, \h07FA>>, <<\h07FD, \h07FD>>,
    <<\h0816, \h082D>>, <<\h0859, \h085B>>, <<\h0888, \h0888>>, <<\h0890, \h0891>>,
    <<\h0898, \h089F>>, <<\h08C9, \h0902>>, <<\h093A, \h093A>>, <<\h093C, \h093C>>,
    <<\h0941, \h0948>>, <<\h094D, \h094D>>, <<\h0951, \h0957>>, <<\h0962, \h0963>>,
    <<\h0971, \h0971>>, <<\h0981, \h0981>>, <<\h09BC, \h09BC>>, <<\h09C1, \h09C4>>,
    <<\h09CD, \h09CD>>, <<\h09E2, \h09E3>>, <<\h09FE, \h09FE>>, <<\h0A01, \h0A02>>,
    <<\h0A3C, \h0A3C>>, <<\h0A41, \h0A42>>, <<\h0A47, \h0A48>>, <<\h0A4B, \h0A4D>>,
    <<\h0A51, \h0A51>>, <<\h0A70, \h0A71>>, <<\h0A75, \h0A75>>, <<\h0A81, \h0A82>>,
    <<\h0ABC, \h0ABC>>, <<\h0AC1, \h0AC5>>, <<\h0AC7, \h0AC8>>, <<\h0ACD, \h0ACD>>,
    <<\h0AE2, \h0AE3>>, <<\h0AFA, \h0AFF>>, <<\h0B01, \h0B01>>, <<\h0B3C, \h0B3C>>,
    <<\h0B3F, \h0B3F>>, <<\h0B41, \h0B44>>, <<\h0B4D, \h0B4D>>, <<\h0B55, \h0B56>>,
    <<\h0B62, \h0B63>>, <<\h0B82, \h0B82>>, <<\h0BC0, \h0BC0>>, <<\h0BCD, \h0BCD>>,
    <<\h0C00, \h0C00>>, <<\h0C04, \h0C04>>, <<\h0C3C, \h0C3C>>, <<\h0C3E, \h0C40>>,
    <<\h0C46, \h0C48>>, <<\h0C4A, \h0C4D>>, <<\h0C55, \h0C56>>, <<\h0C62, \h0C63>>,
    <<\h0C81, \h0C81>>, <<\h0CBC, \h0CBC>>, <<\h0CBF, \h0CBF>>, <<\h0CC6, \h0CC6>>,
    <<\h0CCC, \h0CCD>>, <<\h0CE2, \h0CE3>>, <<\h0D00, \h0D01>>, <<\h0D3B, \h0D3C>>,
    <<\h0D41, \h0D44>>, <<\h0D4D, \h0D4D>>, <<\h0D62, \h0D63>>, <<\h0D81, \h0D81>>,
    <<\h0DCA, \h0DCA>>, <<\h0DD2, \h0DD4>>, <<\h0DD6, \h0DD6>>, <<\h0E31, \h0E31>>,
    <<\h0E34, \h0E3A>>, <<\h0E46, \h0E4E>>, <<\h0EB1, \h0EB1>>, <<\h0EB4, \h0EBC>>,
    <<\h0EC6, \h0EC6>>, <<\h0EC8, \h0ECD>>, <<\h0F18, \h0F19>>, <<\h0F35, \h0F35>>,
    <<\h0F37, \h0F37>>, <<\h0F39, \h0F39>>, <<\h0F71, \h0F7E>>, <<\h0F80, \h0F84>>,
    <<\h0F86, \h0F87>>, <<\h0F8D, \h0F97>>, <<\h0F99, \h0FBC>>, <<\h0FC6, \h0FC6>>,
    <<\h102D, \h1030>>, <<\h1032, \h1037>>, <<\h1039, \h103A>>, <<\h103D, \h103E>>,
    <<\h1058, \h1059>>, <<\h105E, \h1060>>, <<\h1071, \h1074>>, <<\h1082, \h1082>>,
    <<\h1085, \h1086>>, <<\h108D, \h108D>>, <<\h109D, \h109D>>, <<\h10FC, \h10FC>>,
    <<\h135D, \h135F>>, <<\h1712, \h1714>>, <<\h1732, \h1733>>, <<\h1752, \h1753>>,
    <<\h1772, \h1773>>, <<\h17B4, \h17B5>>, <<\h17B7, \h17BD>>, <<\h17C6, \h17C6>>,
    <<\h17C9, \h17D3>>, <<\h17D7, \h17D7>>, <<\h17DD, \h17DD>>, <<\h180B, \h180F>>,
    <<\h1843, \h1843>>, <<\h1885, \h1886>>, <<\h18A9, \h18A9>>, <<\h1920, \h1922>>,
    <<\h1927, \h1928>>, <<\h1932, \h1932>>, <<\h1939, \h193B>>, <<\h1A17, \h1A18>>,
    <<\h1A1B, \h1A1B>>, <<\h1A56, \h1A56>>, <<\h1A58, \h1A5E>>, <<\h1A60, \h1A60>>,
    <<\h1A62, \h1A62>>, <<\h1A65, \h1A6C>>, <<\h1A73, \h1A7C>>, <<\h1A7F, \h1A7F>>,
    <<\h1AA7, \h1AA7>>, <<\h1AB0, \h1ACE>>, <<\h1B00, \h1B03>>, <<\h1B34, \h1B34>>,
    <<\h1B36, \h1B3A>>, <<\h1B3C, \h1B3C>>, <<\h1B42, \h1B42>>, <<\h1B6B, \h1B73>>,
    <<\h1B80, \h1B81>>, <<\h1BA2, \h1BA5>>, <<\h1BA8, \h1BA9>>, <<\h1BAB, \h1BAD>>,
    <<\h1BE6, \h1BE6>>, <<\h1BE8, \h1BE9>>, <<\h1BED, \h1BED>>, <<\h1BEF, \h1BF1>>,
    <<\h1C2C, \h1C33>>, <<\h1C36, \h1C37>>, <<\h1C78, \h1C7D>>, <<\h1CD0, \h1CD2>>,
    <<\h1CD4, \h1CE0>>, <<\h1CE2, \h1CE8>>, <<\h1CED, \h1CED>>, <<\h1CF4, \h1CF4>>,
    <<\h1CF8, \h1CF9>>, <<\h1D2C, \h1D6A>>, <<\h1D78, \h1D78>>, <<\h1D9B, \h1DFF>>,
    <<\h1FBD, \h1FBD>>, <<\h1FBF, \h1FC1>>, <<\h1FCD, \h1FCF>>, <<\h1FDD, \h1FDF>>,
    <<\h1FED, \h1FEF>>, <<\h1FFD, \h1FFE>>, <<\h200B, \h200F>>, <<\h2018, \h2019>>,
    <<\h2024, \h2024>>, <<\h2027, \h2027>>, <<\h202A, \h202E>>, <<\h2060, \h2064>>,
    <<\h2066, \h206F>>, <<\h2071, \h2071>>, <<\h207F, \h207F>>, <<\h2090, \h209C>>,
    <<\h20D0, \h20F0>>, <<\h2C7C, \h2C7D>>, <<\h2CEF, \h2CF1>>, <<\h2D6F, \h2D6F>>,
    <<\h2D7F, \h2D7F>>, <<\h2DE0, \h2DFF>>, <<\h2E2F, \h2E2F>>, <<\h3005, \h3005>>,
    <<\h302A, \h302D>>, <<\h3031, \h3035>>, <<\h303B, \h303B>>, <<\h3099, \h309E>>,
    <<\h30FC, \h30FE>>, <<\hA015, \hA015>>, <<\hA4F8, \hA4FD>>, <<\hA60C, \hA60C>>,
    <<\hA66F, \hA672>>, <<\hA674, \hA67D>>, <<\hA67F, \hA67F>>, <<\hA69C, \hA69F>>,
    <<\hA6F0, \hA6F1>>, <<\hA700, \hA721>>, <<\hA770, \hA770>>, <<\hA788, \hA78A>>,
    <<\hA7F2, \hA7F4>>, <<\hA7F8, \hA7F9>>, <<\hA802, \hA802>>, <<\hA806, \hA806>>,
    <<\hA80B, \hA80B>>, <<\hA825, \hA826>>, <<\hA82C, \hA82C>>, <<\hA8C4, \hA8C5>>,
    <<\hA8E0, \hA8F1>>, <<\hA8FF, \hA8FF>>, <<\hA926, \hA92D>>, <<\hA947, \hA951>>,
    <<\hA980, \hA982>>, <<\hA9B3, \hA9B3>>, <<\hA9B6, \hA9B9>>, <<\hA9BC, \hA9BD>>,
    <<\hA9CF, \hA9CF>>, <<\hA9E5, \hA9E6>>, <<\hAA29, \hAA2E>>, <<\hAA31, \hAA32>>,
    <<\hAA35, \hAA36>>, <<\hAA43, \hAA43>>, <<\hAA4C, \hAA4C>>, <<\hAA70, \hAA70>>,
    <<\hAA7C, \hAA7C>>, <<\hAAB0, \hAAB0>>, <<\hAAB2, \hAAB4>>, <<\hAAB7, \hAAB8>>,
    <<\hAABE, \hAABF>>, <<\hAAC1, \hAAC1>>, <<\hAADD, \hAADD>>, <<\hAAEC, \hAAED>>,
    <<\hAAF3, \hAAF4>>, <<\hAAF6, \hAAF6>>, <<\hAB5B, \hAB5F>>, <<\hAB69, \hAB6B>>,
    <<\hABE5, \hABE5>>, <<\hABE8, \hABE8>>, <<\hABED, \hABED>>, <<\hFB1E, \hFB1E>>,
    <<\hFBB2, \hFBC2>>, <<\hFE00, \hFE0F>>, <<\hFE13, \hFE13>>, <<\hFE20, \hFE2F>>,
    <<\hFE52, \hFE52>>, <<\hFE55, \hFE55>>, <<\hFEFF, \hFEFF>>, <<\hFF07, \hFF07>>,
    <<\hFF0E, \hFF0E>>, <<\hFF1A, \hFF1A>>, <<\hFF3E, \hFF3E>>, <<\hFF40, \hFF40>>,
    <<\hFF70, \hFF70>>, <<\hFF9E, \hFF9F>>, <<\hFFE3, \hFFE3>>, <<\hFFF9, \hFFFB>>,
    <<\h101FD, \h101FD>>, <<\h102E0, \h102E0>>, <<\h10376, \h1037A>>, <<\h10780,
    \h10785>>, <<\h10787, \h107B0>>, <<\h107B2, \h107BA>>, <<\h10A01, \h10A03>>,
    <<\h10A05, \h10A06>>, <<\h10A0C, \h10A0F>>, <<\h10A38, \h10A3A>>, <<\h10A3F,
    \h10A3F>>, <<\h10AE5, \h10AE6>>, <<\h10D24, \h10D27>>, <<\h10EAB, \h10EAC>>,
    <<\h10F46, \h10F50>>, <<\h10F82, \h10F85>>, <<\h11001, \h11001>>, <<\h11038,
    \h11046>>, <<\h11070, \h11070>>, <<\h11073, \h11074>>, <<\h1107F, \h11081>>,
    <<\h110B3, \h110B6>>, <<\h110B9, \h110BA>>, <<\h110BD, \h110BD>>, <<\h110C2,
    \h110C2>>, <<\h110CD, \h110CD>>, <<\h11100, \h11102>>, <<\h11127, \h1112B>>,
    <<\h1112D, \h11134>>, <<\h11173, \h11173>>, <<\h11180, \h11181>>, <<\h111B6,
    \h111BE>>, <<\h111C9, \h111CC>>, <<\h111CF, \h111CF>>, <<\h1122F, \h11231>>,
    <<\h11234, \h11234>>, <<\h11236, \h11237>>, <<\h1123E, \h1123E>>, <<\h112DF,
    \h112DF>>, <<\h112E3, \h112EA>>, <<\h11300, \h11301>>, <<\h1133B, \h1133C>>,
    <<\h11340, \h11340>>, <<\h11366, \h1136C>>, <<\h11370, \h11374>>, <<\h11438,
    \h1143F>>, <<\h11442, \h11444>>, <<\h11446, \h11446>>, <<\h1145E, \h1145E>>,
    <<\h114B3, \h114B8>>, <<\h114BA, \h114BA>>, <<\h114BF, \h114C0>>, <<\h114C2,
    \h114C3>>, <<\h115B2, \h115B5>>, <<\h115BC, \h115BD>>, <<\h115BF, \h115C0>>,
    <<\h115DC, \h115DD>>, <<\h11633, \h1163A>>, <<\h1163D, \h1163D>>, <<\h1163F,
    \h11640>>, <<\h116AB, \h116AB>>, <<\h116AD, \h116AD>>, <<\h116B0, \h116B5>>,
    <<\h116B7, \h116B7>>, <<\h1171D, \h1171F>>, <<\h11722, \h11725>>, <<\h11727,
    \h1172B>>, <<\h1182F, \h11837>>, <<\h11839, \h1183A>>, <<\h1193B, \h1193C>>,
    <<\h1193E, \h1193E>>, <<\h11943, \h11943>>, <<\h119D4, \h119D7>>, <<\h119DA,
    \h119DB>>, <<\h119E0, \h119E0>>, <<\h11A01, \h11A0A>>, <<\h11A33, \h11A38>>,
    <<\h11A3B, \h11A3E>>, <<\h11A47, \h11A47>>, <<\h11A51, \h11A56>>, <<\h11A59,
    \h11A5B>>, <<\h11A8A, \h11A96>>, <<\h11A98, \h11A99>>, <<\h11C30, \h11C36>>,
    <<\h11C38, \h11C3D>>, <<\h11C3F, \h11C3F>>, <<\h11C92, \h11CA7>>, <<\h11CAA,
    \h11CB0>>, <<\h11CB2, \h11CB3>>, <<\h11CB5, \h11CB6>>, <<\h11D31, \h11D36>>,
    <<\h11D3A, \h11D3A>>, <<\h11D3C, \h11D3D>>, <<\h11D3F, \h11D45>>, <<\h11D47,
    \h11D47>>, <<\h11D90, \h11D91>>, <<\h11D95, \h11D95>>, <<\h11D97, \h11D97>>,
    <<\h11EF3, \h11EF4>>, <<\h13430, \h13438>>, <<\h16AF0, \h16AF4>>, <<\h16B30,
    \h16B36>>, <<\h16B40, \h16B43>>, <<\h16F4F, \h16F4F>>, <<\h16F8F, \h16F9F>>,
    <<\h16FE0, \h16FE1>>, <<\h16FE3, \h16FE4>>, <<\h1AFF0, \h1AFF3>>, <<\h1AFF5,
    \h1AFFB>>, <<\h1AFFD, \h1AFFE>>, <<\h1BC9D, \h1BC9E>>, <<\h1BCA0, \h1BCA3>>,
    <<\h1CF00, \h1CF2D>>, <<\h1CF30, \h1CF46>>, <<\h1D167, \h1D169>>, <<\h1D173,
    \h1D182>>, <<\h1D185, \h1D18B>>, <<\h1D1AA, \h1D1AD>>, <<\h1D242, \h1D244>>,
    <<\h1DA00, \h1DA36>>, <<\h1DA3B, \h1DA6C>>, <<\h1DA75, \h1DA75>>, <<\h1DA84,
    \h1DA84>>, <<\h1DA9B, \h1DA9F>>, <<\h1DAA1, \h1DAAF>>, <<\h1E000, \h1E006>>,
    <<\h1E008, \h1E018>>, <<\h1E01B, \h1E021>>, <<\h1E023, \h1E024>>, <<\h1E026,
    \h1E02A>>, <<\h1E130, \h1E13D>>, <<\h1E2AE, \h1E2AE>>, <<\h1E2EC, \h1E2EF>>,
    <<\h1E8D0, \h1E8D6>>, <<\h1E944, \h1E94B>>, <<\h1F3FB, \h1F3FF>>, <<\hE0001,
    \hE0001>>, <<\hE0020, \hE007F>>, <<\hE0100, \hE01EF>>}

Cased == CharsOf(CasedRanges)

CaseIgnorable == CharsOf(CaseIgnorableRanges)

\* the nearest position at or before j whose character is not
\* case-ignorable, 0 when there is none
RECURSIVE CasedBefore(_, _)
CasedBefore(s, j) ==
    IF j = 0 \/ s[j] \notin CaseIgnorable THEN j ELSE CasedBefore(s, j - 1)

\* the nearest position at or after j whose character is not
\* case-ignorable, Len(s) + 1 when there is none
RECURSIVE CasedAfter(_, _)
CasedAfter(s, j) ==
    IF j > Len(s) \/ s[j] \notin CaseIgnorable THEN j ELSE CasedAfter(s, j + 1)

\* GREEK CAPITAL LETTER SIGMA at position i is a final sigma when a cased
\* character comes before it and none after it, case-ignorable characters
\* passed over
final_sigma(s, i) ==
    /\ CasedBefore(s, i - 1) >= 1
    /\ s[CasedBefore(s, i - 1)] \in Cased
    /\ (CasedAfter(s, i + 1) > Len(s) \/ s[CasedAfter(s, i + 1)] \notin Cased)

\* the lower case of the character at position i of s: GREEK CAPITAL LETTER
\* SIGMA becomes GREEK SMALL LETTER FINAL SIGMA or GREEK SMALL LETTER SIGMA
LowerAt(s, i) ==
    IF s[i] = "U+03A3"
    THEN <<IF final_sigma(s, i) THEN "U+03C2" ELSE "U+03C3">>
    ELSE LowerText(s[i])

RECURSIVE LowerFrom(_, _)
LowerFrom(s, i) ==
    IF i > Len(s) THEN <<>> ELSE LowerAt(s, i) \o LowerFrom(s, i + 1)

\* str.lower()
lower(s) == LowerFrom(s, 1)

\* str.endswith(suffix)
endswith(s, suffix) ==
    /\ Len(suffix) <= Len(s)
    /\ SubSeq(s, Len(s) - Len(suffix) + 1, Len(s)) = suffix

\* str.replace(c, "") for a single character c
RECURSIVE RemoveChar(_, _)
RemoveChar(s, c) ==
    IF s = <<>> THEN <<>>
    ELSE (IF Head(s) = c THEN <<>> ELSE <<Head(s)>>) \o RemoveChar(Tail(s), c)

\* str.replace(c, d) for single characters c, d
ReplaceChar(s, c, d) == [i \in 1..Len(s) |-> IF s[i] = c THEN d ELSE s[i]]

\* ------------------------------------------------------------- datetime

None == [none |-> TRUE]

IsLeap(year) == year % 4 = 0 /\ (year % 100 # 0 \/ year % 400 = 0)

DaysInMonth(year, month) ==
    IF month = 2 THEN (IF IsLeap(year) THEN 29 ELSE 28)
    ELSE IF month \in {4, 6, 9, 11} THEN 30 ELSE 31

\* the range checks of datetime.datetime(...): a ValueError when FALSE
ValidDateTime(year, month, day, hour, minute, second) ==
    /\ year \in 1..9999
    /\ month \in 1..12
    /\ day >= 1 /\ day <= DaysInMonth(year, month)
    /\ hour \in 0..23
    /\ minute \in 0..59
    /\ second \in 0..59

\* datetime.datetime(year, month, day, hour, minute, second) inside a
\* try/except ValueError: the datetime, or None when the constructor raises
datetime(year, month, day, hour, minute, second) ==
    IF ValidDateTime(year, month, day, hour, minute, second)
    THEN [year |-> year, month |-> month, day |-> day,
          hour |-> hour, minute |-> minute, second |-> second]
    ELSE None

\* --------------------------------------------- parse_date_from_filename

\* does r"(\d{8})_(\d{6})" match filename at (1-based) position i
MatchesA(filename, i) ==
    /\ i >= 1 /\ i + 14 <= Len(filename)
    /\ AllDigits(SubSeq(filename, i, i + 7))
    /\ filename[i + 8] = "_"
    /\ AllDigits(SubSeq(filename, i + 9, i + 14))

\* does r"(\d{14})" match filename at (1-based) position i
MatchesB(filename, i) ==
    /\ i >= 1 /\ i + 13 <= Len(filename)
    /\ AllDigits(SubSeq(filename, i, i + 13))

\* the least element of a set of positions, 0 for the empty set
Leftmost(S) == IF S = {} THEN 0 ELSE CHOOSE i \in S : \A j \in S : i <= j

\* re.search: the leftmost position where the pattern matches, 0 for no match
SearchA(filename) == Leftmost({i \in 1..Len(filename) : MatchesA(filename, i)})

SearchB(filename) == Leftmost({i \in 1..Len(filename) : MatchesB(filename, i)})

\* the pattern-A branch: the datetime of the match, None on ValueError
DateFromA(filename, i) ==
    LET part1 == SubSeq(filename, i, i + 7)
        part2 == SubSeq(filename, i + 9, i + 14)
    IN datetime(ToInt(Slice(part1, 0, 4)), ToInt(Slice(part1, 4, 6)),
                ToInt(Slice(part1, 6, 8)), ToInt(Slice(part2, 0, 2)),
                ToInt(Slice(part2, 2, 4)), ToInt(Slice(part2, 4, 6)))

\* the pattern-B branch: the datetime of the match, None on ValueError
DateFromB(filename, i) ==
    LET digits == SubSeq(filename, i, i + 13)
    IN datetime(ToInt(Slice(digits, 0, 4)), ToInt(Slice(digits, 4, 6)),
                ToInt(Slice(digits, 6, 8)), ToInt(Slice(digits, 8, 10)),
                ToInt(Slice(digits, 10, 12)), ToInt(Slice(digits, 12, 14)))

\* a faulty parser: the 14-digit pattern is tried before the 8_6 pattern
ParseMatchesBFirst(filename, match_a, match_b) ==
    IF match_b # 0 /\ DateFromB(filename, match_b) # None
    THEN DateFromB(filename, match_b)
    ELSE IF match_a # 0 THEN DateFromA(filename, match_a) ELSE None

\* a faulty parser: a pattern-A match ends the search, valid or not
ParseMatchesNoFallThrough(filename, match_a, match_b) ==
    IF match_a # 0 THEN DateFromA(filename, match_a)
    ELSE IF match_b # 0 THEN DateFromB(filename, match_b) ELSE None

\* the two branches in the code's order, given the two re.search results
ParseMatches(filename, match_a, match_b) ==
    IF match_a # 0 /\ DateFromA(filename, match_a) # None
    THEN DateFromA(filename, match_a)
    ELSE IF match_b # 0 THEN DateFromB(filename, match_b) ELSE None

\* the two re.search calls on a file name, then the branches
ParseName(name) ==
    Let(SearchA(name), LAMBDA match_a :
        Let(SearchB(name), LAMBDA match_b : ParseMatches(name, match_a, match_b)))

parse_date_from_filename(filename) == Let(filename, LAMBDA name : ParseName(name))

\* ------------------------------------------------- datetime.strftime

\* "%Y" as the C library renders it: glibc prints the year without padding,
\* the other C libraries CPython runs on zero-pad it to four digits
strftime_Y(libc_, date_obj) ==
    IF libc_ = "glibc" THEN Decimal(date_obj.year) ELSE ZeroPad(date_obj.year, 4)

\* date_obj.strftime("%Y-%m-%d %H.%M.%S")
strftime_name(libc_, date_obj) ==
    strftime_Y(libc_, date_obj) \o <<"-">> \o ZeroPad(date_obj.month, 2)
        \o <<"-">> \o ZeroPad(date_obj.day, 2) \o <<" ">>
        \o ZeroPad(date_obj.hour, 2) \o <<".">> \o ZeroPad(date_obj.minute, 2)
        \o <<".">> \o ZeroPad(date_obj.second, 2)

\* ------------------------------------------------- datetime.strptime

\* number of whitespace characters of s starting at position p
RECURSIVE SpaceLen(_, _)
SpaceLen(s, p) ==
    IF p > Len(s) \/ s[p] \notin Whitespace THEN 0 ELSE 1 + SpaceLen(s, p + 1)

\* The steps of strptime's match.  A position is 1-based; 0 stands for
\* "no match so far".  The pattern of a directive tries its two-character
\* alternatives before its one-character alternative.

\* the two-character alternatives of a directive's pattern:
\* %m 1[0-2]|0[1-9], %d 3[0-1]|[1-2]\d|0[1-9], %H 2[0-3]|[0-1]\d,
\* %M [0-5]\d, %S 6[0-1]|[0-5]\d
TwoChars(directive, c1, c2) ==
    IF directive = "m"
    THEN (c1 = "1" /\ c2 \in AsciiRange(0, 2)) \/ (c1 = "0" /\ c2 \in AsciiRange(1, 9))
    ELSE IF directive = "d"
    THEN \/ (c1 = "3" /\ c2 \in AsciiRange(0, 1))
         \/ (c1 \in AsciiRange(1, 2) /\ c2 \in Digits)
         \/ (c1 = "0" /\ c2 \in AsciiRange(1, 9))
    ELSE IF directive = "H"
    THEN (c1 = "2" /\ c2 \in AsciiRange(0, 3)) \/ (c1 \in AsciiRange(0, 1) /\ c2 \in Digits)
    ELSE IF directive = "M"
    THEN c1 \in AsciiRange(0, 5) /\ c2 \in Digits
    ELSE (c1 = "6" /\ c2 \in AsciiRange(0, 1)) \/ (c1 \in AsciiRange(0, 5) /\ c2 \in Digits)

\* the one-character alternative: [1-9] for %m and %d, \d for %H %M %S
OneChar(directive, c) ==
    IF directive \in {"m", "d"} THEN c \in AsciiRange(1, 9) ELSE c \in Digits

\* the number of characters the directive's pattern takes at p (0: none)
FieldLen(value, p, directive) ==
    IF p = 0 \/ p > Len(value) THEN 0
    ELSE IF p + 1 <= Len(value) /\ TwoChars(directive, value[p], value[p + 1]) THEN 2
    ELSE IF OneChar(directive, value[p]) THEN 1
    ELSE 0

\* the position after the character c expected at p
AfterChar(value, p, c) ==
    IF p # 0 /\ p <= Len(value) /\ value[p] = c THEN p + 1 ELSE 0

\* the position after the four digits of %Y (\d\d\d\d) at the start
AfterYear(value) ==
    IF Len(value) >= 4 /\ AllDigits(SubSeq(value, 1, 4)) THEN 5 ELSE 0

\* int() of what the directive took at p
FieldVal(value, p, directive) ==
    ToInt(SubSeq(value, p, p + FieldLen(value, p, directive) - 1))

\* the position after the directive at p
AfterField(value, p, directive) ==
    IF FieldLen(value, p, directive) = 0 THEN 0
    ELSE p + FieldLen(value, p, directive)

\* %d has the alternative " [1-9]", a blank and one digit: the position of
\* the digit, which then is a one-character field
AfterDayLead(value, p) ==
    IF p # 0 /\ p <= Len(value) /\ value[p] = " "
    THEN IF p + 1 <= Len(value) /\ value[p + 1] \in AsciiRange(1, 9)
            /\ (p + 2 > Len(value) \/ value[p + 2] \notin Digits)
         THEN p + 1 ELSE 0
    ELSE p

\* the blank of the format is \s+: one or more whitespace characters
AfterSpaces(value, p) ==
    IF p # 0 /\ SpaceLen(value, p) >= 1 THEN p + SpaceLen(value, p) ELSE 0

\* %S must end the value; then the fields are handed to datetime
strp_S(value, pm, pd, pH, pM, pS) ==
    IF pS # 0 /\ AfterField(value, pS, "S") = Len(value) + 1
    THEN datetime(ToInt(SubSeq(value, 1, 4)), FieldVal(value, pm, "m"),
                  FieldVal(value, pd, "d"), FieldVal(value, pH, "H"),
                  FieldVal(value, pM, "M"), FieldVal(value, pS, "S"))
    ELSE None

strp_M(value, pm, pd, pH, pM) ==
    Let(AfterChar(value, AfterField(value, pM, "M"), ":"),
        LAMBDA pS : strp_S(value, pm, pd, pH, pM, pS))

strp_H(value, pm, pd, pH) ==
    Let(AfterChar(value, AfterField(value, pH, "H"), ":"),
        LAMBDA pM : strp_M(value, pm, pd, pH, pM))

strp_d(value, pm, pd) ==
    Let(AfterSpaces(value, AfterField(value, pd, "d")),
        LAMBDA pH : strp_H(value, pm, pd, pH))

strp_m(value, sep, pm) ==
    Let(AfterDayLead(value, AfterChar(value, AfterField(value, pm, "m"), sep)),
        LAMBDA pd : strp_d(value, pm, pd))

strp_Y(value, sep) ==
    Let(AfterChar(value, AfterYear(value), sep), LAMBDA pm : strp_m(value, sep, pm))

\* datetime.datetime.strptime(value, "%Y<sep>%m<sep>%d %H:%M:%S") inside a
\* try/except: the datetime, or None when strptime raises ValueError.
\* %Y is four decimal digits; %m %d %H %M %S match their patterns (%S up to
\* 61); nothing may follow %S.
strptime(value, sep) == Let(value, LAMBDA v : strp_Y(v, sep))

\* --------------------------------------------------------- os.path

\* os.path.basename / os.path.dirname / os.path.join of a path
basename(path) == path[Len(path)]

dirname(path) == SubSeq(path, 1, Len(path) - 1)

join(dir, name) == Append(dir, name)

\* the path as one text, its components joined by os.sep
RECURSIVE PathText(_)
PathText(path) ==
    IF Len(path) = 0 THEN <<>>
    ELSE IF Len(path) = 1 THEN path[1]
    ELSE PathText(dirname(path)) \o <<"/">> \o basename(path)

\* the greatest element of a set of positions, 0 for the empty set
Rightmost(S) == IF S = {} THEN 0 ELSE CHOOSE i \in S : \A j \in S : j <= i

\* the split of a file name at dotIndex, the place of its last dot (0: none):
\* the extension starts there unless only dots precede it
SplitAt(name, dotIndex) ==
    IF dotIndex > 0 /\ \E i \in 1..(dotIndex - 1) : name[i] # "."
    THEN <<SubSeq(name, 1, dotIndex - 1), SubSeq(name, dotIndex, Len(name))>>
    ELSE <<name, <<>>>>

\* os.path.splitext of a file name: <<root, ext>>
splitext(name) == SplitAt(name, Rightmost({i \in 1..Len(name) : name[i] = "."}))

\* ------------------------------------------------------- configuration

SOURCE_FOLDER == << <<"m">> >>

\* a subfolder of the source tree
SubFolder == << <<"m">>, <<"a">> >>

\* the places ORGANIZED_FOLDER and SKIPPED_FOLDER may be configured to:
\* outside the source tree, or a folder below SOURCE_FOLDER
OrganizedChoices == { << <<"o">> >>, << <<"m">>, <<"o">> >> }

SkippedChoices == { << <<"k">> >>, << <<"m">>, <<"k">> >> }

\* a year folder left under m/o by an earlier run
OldYearFolder == << <<"m">>, <<"o">>, <<"2", "0", "2", "3">> >>

IMAGE_EXTS == { <<".", "j", "p", "g">>, <<".", "j", "p", "e", "g">>,
                <<".", "p", "n", "g">>, <<".", "g", "i", "f">>,
                <<".", "h", "e", "i", "c">> }

VIDEO_EXTS == { <<".", "m", "p", "4">>, <<".", "m", "o", "v">>,
                <<".", "a", "v", "i">>, <<".", "m", "k", "v">> }

\* ------------------------------------------------------ the input files

\* The files a source tree may hold before a run.  kind is "file" for a
\* regular file and "link" for a symbolic link, whose target names no file
\* when the run starts; meta is what the
\* metadata reader of the file's class finds in it; denied tells that the
\* operating system refuses to move, remove or overwrite the file
\* (PermissionError: the file is immutable); tree marks the files the runs
\* over several files draw from.  The last two entries are what
\* SKIPPED_FOLDER is when it is a link to a volume that is not mounted.
Catalogue == <<
    [dir |-> SOURCE_FOLDER, name |-> <<"I", "M", "G", "_", "2", "0", "2", "3", "0", "8", "0", "9", "_", "1", "6", "2", "4", "5", "3", ".", "j", "p", "g">>,
     kind |-> "file", meta |-> [kind |-> "tag", value |-> <<"2", "0", "2", "1", ":", "0", "1", ":", "0", "2", " ", "0", "3", ":", "0", "4", ":", "0", "5">>], denied |-> FALSE, tree |-> FALSE],
    [dir |-> SubFolder, name |-> <<"2", "0", "2", "3", "0", "8", "0", "9", "_", "1", "6", "2", "4", "5", "3", ".", "j", "p", "g">>,
     kind |-> "file", meta |-> [kind |-> "no_exif", value |-> <<>>], denied |-> FALSE, tree |-> TRUE],
    [dir |-> SOURCE_FOLDER, name |-> <<"p", ".", "j", "p", "g">>,
     kind |-> "file", meta |-> [kind |-> "tag", value |-> <<"2", "0", "2", "3", ":", "0", "8", ":", "0", "9", " ", "1", "6", ":", "2", "4", ":", "5", "3">>], denied |-> FALSE, tree |-> TRUE],
    [dir |-> SOURCE_FOLDER, name |-> <<"n", ".", "t", "x", "t">>,
     kind |-> "file", meta |-> [kind |-> "none", value |-> <<>>], denied |-> FALSE, tree |-> TRUE],
    [dir |-> SubFolder, name |-> <<"n", ".", "t", "x", "t">>,
     kind |-> "file", meta |-> [kind |-> "none", value |-> <<>>], denied |-> FALSE, tree |-> TRUE],
    [dir |-> SOURCE_FOLDER, name |-> <<"v", ".", "m", "p", "4">>,
     kind |-> "file", meta |-> [kind |-> "tag", value |-> <<"2", "0", "2", "3", "-", "0", "8", "-", "0", "9", "T", "1", "6", ":", "2", "4", ":", "5", "3", ".", "0", "0", "0", "0", "0", "0", "Z">>], denied |-> FALSE, tree |-> FALSE],
    [dir |-> SubFolder, name |-> <<"2", "0", "2", "3", "1", "3", "0", "9", "_", "1", "6", "2", "4", "5", "3", "-", "2", "0", "2", "4", "0", "2", "2", "9", "2", "3", "5", "9", "5", "9", ".", "M", "O", "V">>,
     kind |-> "file", meta |-> [kind |-> "launch_error", value |-> <<>>], denied |-> FALSE, tree |-> FALSE],
    [dir |-> SOURCE_FOLDER, name |-> <<"B", ".", "J", "P", "G">>,
     kind |-> "file", meta |-> [kind |-> "open_error", value |-> <<>>], denied |-> FALSE, tree |-> FALSE],
    [dir |-> SOURCE_FOLDER, name |-> <<"0", "0", "0", "1", "0", "2", "0", "3", "_", "0", "4", "0", "5", "0", "6", ".", "p", "n", "g">>,
     kind |-> "file", meta |-> [kind |-> "no_tag", value |-> <<>>], denied |-> FALSE, tree |-> FALSE],
    [dir |-> OldYearFolder, name |-> <<"2", "0", "2", "3", "-", "0", "8", "-", "0", "9", " ", "1", "6", ".", "2", "4", ".", "5", "3", ".", "j", "p", "g">>,
     kind |-> "file", meta |-> [kind |-> "tag", value |-> <<"2", "0", "2", "3", ":", "0", "8", ":", "0", "9", " ", "1", "6", ":", "2", "4", ":", "5", "3">>], denied |-> TRUE, tree |-> TRUE],
    [dir |-> SOURCE_FOLDER, name |-> <<"d", ".", "t", "x", "t">>,
     kind |-> "file", meta |-> [kind |-> "none", value |-> <<>>], denied |-> TRUE, tree |-> TRUE],
    [dir |-> SubFolder, name |-> <<"L">>,
     kind |-> "link", target |-> << <<"m">>, <<"a">>, <<"g", "o", "n", "e">> >>,
     meta |-> [kind |-> "none", value |-> <<>>], denied |-> FALSE, tree |-> TRUE],
    [dir |-> SOURCE_FOLDER, name |-> <<"x", ".", "g", "i", "f">>,
     kind |-> "file", meta |-> [kind |-> "tag", value |-> <<"2", "0", "2", "3", ":", "1", "3", ":", "0", "9", " ", "1", "6", ":", "2", "4", ":", "5", "3">>], denied |-> FALSE, tree |-> FALSE],
    [dir |-> SubFolder, name |-> <<"w", "_", "2", "0", "2", "3", "0", "8", "0", "9", "1", "6", "2", "4", "5", "3", ".", "a", "v", "i">>,
     kind |-> "file", meta |-> [kind |-> "nonzero_exit", value |-> <<>>], denied |-> FALSE, tree |-> FALSE],
    [dir |-> SOURCE_FOLDER, name |-> <<"y", ".", "m", "k", "v">>,
     kind |-> "file", meta |-> [kind |-> "bad_json", value |-> <<>>], denied |-> FALSE, tree |-> FALSE],
    [dir |-> SubFolder, name |-> <<"z", ".", "m", "p", "4">>,
     kind |-> "file", meta |-> [kind |-> "no_tag", value |-> <<>>], denied |-> FALSE, tree |-> FALSE],
    [dir |-> SOURCE_FOLDER, name |-> <<"u", "_", "1", "9", "9", "9", "1", "2", "3", "1", "_", "2", "3", "5", "9", "5", "9", ".", "m", "o", "v">>,
     kind |-> "file", meta |-> [kind |-> "tag", value |-> <<"y", "e", "s", "t", "e", "r", "d", "a", "y">>], denied |-> FALSE, tree |-> FALSE],
    [dir |-> SubFolder, name |-> <<"q", "_", "2", "0", "2", "4", "0", "2", "2", "9", "_", "1", "2", "0", "0", "0", "0", ".", "h", "e", "i", "c">>,
     kind |-> "file", meta |-> [kind |-> "open_error", value |-> <<>>], denied |-> TRUE, tree |-> FALSE],
    [dir |-> SOURCE_FOLDER, name |-> <<"2", "0", "2", "3", "0", "8", "0", "9", "_", "1", "6", "2", "4", "5", "3", ".", "j", "p", "g", ".", "b", "a", "k">>,
     kind |-> "file", meta |-> [kind |-> "tag", value |-> <<"2", "0", "2", "1", ":", "0", "1", ":", "0", "2", " ", "0", "3", ":", "0", "4", ":", "0", "5">>], denied |-> FALSE, tree |-> FALSE],
    [dir |-> SOURCE_FOLDER, name |-> <<"t", ".", "j", "p", "e", "g">>,
     kind |-> "file", meta |-> [kind |-> "tag", value |-> <<"2", "0", "2", "3", ":", "0", "8", ":", "0", "9", "\t", "1", "6", ":", "2", "4", ":", "5", "3">>], denied |-> FALSE, tree |-> FALSE],
    [dir |-> SubFolder, name |-> <<"x", ".", "m", "U+212A", "v">>,
     kind |-> "file", meta |-> [kind |-> "tag", value |-> <<"U+0662", "U+07C0", "U+1D7D0", "U+0969", "-", "0", "8", "-", "0", "9", "T", "1", "6", ":", "2", "4", ":", "5", "3", ".", "0", "0", "0", "0", "0", "0", "Z">>], denied |-> FALSE, tree |-> FALSE],
    [dir |-> SOURCE_FOLDER, name |-> <<"U+00C9", "U+03A3", ".", "J", "P", "G">>,
     kind |-> "file", meta |-> [kind |-> "open_error", value |-> <<>>], denied |-> FALSE, tree |-> FALSE],
    [dir |-> SubFolder, name |-> <<"U+FF12", "U+FF10", "U+FF12", "U+FF13", "U+0AE6", "U+0AEE", "U+06F0", "U+06F9", "_", "U+0661", "U+0666", "U+0662", "U+0664", "U+0665", "U+0663", ".", "p", "n", "g">>,
     kind |-> "file", meta |-> [kind |-> "no_tag", value |-> <<>>], denied |-> FALSE, tree |-> FALSE],
    [dir |-> <<>>, name |-> <<"k">>,
     kind |-> "link", target |-> << <<"v">>, <<"k">> >>,
     meta |-> [kind |-> "none", value |-> <<>>], denied |-> FALSE, tree |-> FALSE],
    [dir |-> SOURCE_FOLDER, name |-> <<"k">>,
     kind |-> "link", target |-> << <<"v">>, <<"k">> >>,
     meta |-> [kind |-> "none", value |-> <<>>], denied |-> FALSE, tree |-> FALSE]
>>

Ids == 1..Len(Catalogue)

\* the entries a source tree is made of
SourceIds == {i \in Ids : join(Catalogue[i].dir, Catalogue[i].name) \notin SkippedChoices}

\* the most files a source tree holds before a run
MaxFiles == 2

PathOf(id) == join(Catalogue[id].dir, Catalogue[id].name)

TreeIds == {i \in Ids : Catalogue[i].tree}

\* the sets of at most MaxFiles files of the catalogue marked tree
Populations ==
    {{}} \cup {{pick[k] : k \in 1..MaxFiles} : pick \in [1..MaxFiles -> TreeIds]}

\* ------------------------------------------------- the parser's inputs

\* the pieces file names are made of: a valid and an invalid (month 13)
\* "8 digits, underscore, 6 digits", a valid and an invalid 14-digit run,
\* two separators, and a valid "8 digits, underscore, 6 digits" written in
\* decimal digits of five scripts (2022-01-02 03:04:05)
Tokens == {
    <<"2", "0", "2", "3", "0", "8", "0", "9", "_", "1", "6", "2", "4", "5", "3">>,
    <<"2", "0", "2", "3", "1", "3", "0", "9", "_", "1", "6", "2", "4", "5", "3">>,
    <<"2", "0", "2", "4", "0", "2", "2", "9", "2", "3", "5", "9", "5", "9">>,
    <<"9", "9", "9", "9", "9", "9", "9", "9", "9", "9", "9", "9", "9", "9">>,
    <<"_">>,
    <<"-">>,
    <<"U+0662", "U+0660", "U+0662", "U+0662", "U+0660", "U+0661", "U+0660", "U+0662", "_", "U+0966", "U+0969", "U+1D7CE", "U+1D7D2", "U+FF10", "U+FF15">> }

\* the most tokens in a file name
MaxTokens == 4

RECURSIVE Concat(_)
Concat(ts) == IF ts = <<>> THEN <<>> ELSE Head(ts) \o Concat(Tail(ts))

Filenames == {Concat(ts) : ts \in UNION {[1..n -> Tokens] : n \in 0..MaxTokens}}

\* ------------------------------------------------------------ the state

VARIABLES
    present,            \* the files (ids) of the source tree when main() starts
    libc,               \* the C library behind datetime.strftime
    ORGANIZED_FOLDER,   \* configuration
    SKIPPED_FOLDER,     \* configuration
    dirs,               \* the directories that exist
    fs,                 \* the files that exist: path -> the file (an id)
    pc,                 \* main(): "walk", "done"; "parse" / "parsed" for the parser alone
    stack,              \* os.walk: the directories still to visit, in order
    root,               \* os.walk: the directory being visited
    files,              \* the rest of the file list of root
    seen,               \* the regular files os.walk has listed: <<path, id>>
    log,                \* one record per call of process_file
    filename,           \* the parser alone: its argument
    parsed              \* the parser alone: its result

vars == <<present, libc, ORGANIZED_FOLDER, SKIPPED_FOLDER, dirs, fs, pc, stack, root,
          files, seen, log, filename, parsed>>

\* ------------------------------------------------------- the filesystem

\* A symbolic link of the catalogue points to a regular file or to nothing,
\* never to a directory, and the operating system never refuses to move it.
\* The working directory holds the paths of one component.

\* the directories on the way to path, path included
Ancestors(path) == {SubSeq(path, 1, k) : k \in 1..Len(path)}

\* what a loop of symbolic links resolves to: a path that names nothing
Nowhere == << <<>> >>

\* os.path.islink
islink(fsx, path) == path \in DOMAIN fsx /\ Catalogue[fsx[path]].kind = "link"

\* the path reached from path by following symbolic links, n of them at most
RECURSIVE follow(_, _, _)
follow(fsx, path, n) ==
    IF ~islink(fsx, path) THEN path
    ELSE IF n = 0 THEN Nowhere
    ELSE follow(fsx, Catalogue[fsx[path]].target, n - 1)

\* the path the operating system opens for path
Resolve(fsx, path) == follow(fsx, path, Cardinality(DOMAIN fsx))

\* os.path.exists / os.path.isdir / os.path.isfile: all follow links
exists(dirsx, fsx, path) == Resolve(fsx, path) \in dirsx \cup DOMAIN fsx

isdir(dirsx, fsx, path) == Resolve(fsx, path) \in dirsx

isfile(fsx, path) == Resolve(fsx, path) \in DOMAIN fsx

\* the directory that is to hold path exists
HasParent(dirsx, path) ==
    path # Nowhere /\ (Len(path) = 1 \/ dirname(path) \in dirsx)

\* os.makedirs(path): [dirs, raised].  The directory and its missing
\* parents are made; OSError when path exists or a file or a link lies on
\* the way to it, and then nothing is made
makedirs(dirsx, fsx, path) ==
    IF path \in dirsx \/ \E p \in Ancestors(path) : p \in DOMAIN fsx
    THEN [dirs |-> dirsx, raised |-> TRUE]
    ELSE [dirs |-> dirsx \cup Ancestors(path), raised |-> FALSE]

\* the operating system refuses to move, remove or write the file at path
\* (PermissionError: the file is immutable).  Such a file never leaves the
\* path it had when the run started; a copy of it is an ordinary file.
refused(fsx, path) ==
    path \in DOMAIN fsx /\ Catalogue[fsx[path]].denied /\ path = PathOf(fsx[path])

\* os.rename(src, dst) of a file or a link: [fs, raised].  Renaming a path
\* to itself does nothing; a file or link at dst is replaced, the link
\* itself, not what it points to.  OSError when src or the file at dst is
\* refused, when no directory holds dst, or when dst is a directory
rename(fsx, dirsx, src, dst) ==
    IF src \notin DOMAIN fsx THEN [fs |-> fsx, raised |-> TRUE]
    ELSE IF src = dst THEN [fs |-> fsx, raised |-> FALSE]
    ELSE IF \/ refused(fsx, src) \/ refused(fsx, dst)
            \/ ~HasParent(dirsx, dst) \/ dst \in dirsx
    THEN [fs |-> fsx, raised |-> TRUE]
    ELSE [fs |-> [q \in (DOMAIN fsx \ {src}) \cup {dst} |->
                     IF q = dst THEN fsx[src] ELSE fsx[q]],
          raised |-> FALSE]

\* the path shutil.copy2 writes for dst: inside dst when dst is a directory
copy_dst(dirsx, fsx, src, dst) ==
    IF isdir(dirsx, fsx, dst) THEN join(dst, basename(src)) ELSE dst

\* shutil.copy2(src, dst) of a file: [fs, raised].  Links are followed on
\* both sides: the content of src is written at what dst resolves to, a
\* link at dst stays.  Raises when src resolves to no file, when src and
\* dst are the same file, when no directory holds the place to write, and
\* when that place is a directory or a refused file
copy2(fsx, dirsx, src, dst) ==
    Let2(Resolve(fsx, src), Resolve(fsx, copy_dst(dirsx, fsx, src, dst)),
         LAMBDA from, to :
            IF \/ from \notin DOMAIN fsx \/ from = to
               \/ ~HasParent(dirsx, to) \/ to \in dirsx \/ refused(fsx, to)
            THEN [fs |-> fsx, raised |-> TRUE]
            ELSE [fs |-> [q \in DOMAIN fsx \cup {to} |->
                             IF q = to THEN fsx[from] ELSE fsx[q]],
                  raised |-> FALSE])

\* os.unlink(path): [fs, raised]
unlink(fsx, path) ==
    IF path \notin DOMAIN fsx \/ refused(fsx, path)
    THEN [fs |-> fsx, raised |-> TRUE]
    ELSE [fs |-> [q \in DOMAIN fsx \ {path} |-> fsx[q]], raised |-> FALSE]

\* the path shutil.move moves to: inside dst when dst is a directory
real_dst(dirsx, fsx, src, dst) ==
    IF isdir(dirsx, fsx, dst) THEN join(dst, basename(src)) ELSE dst

\* shutil.move once os.rename has raised OSError: a link is made anew at
\* the destination, which the obstacle of the rename prevents as well; a
\* file is copied with copy2 and then removed with os.unlink.  When the
\* unlink raises, the copy stays at the destination and the file at its
\* source
move_fallback(fsx, dirsx, src, real) ==
    IF islink(fsx, src) THEN [fs |-> fsx, raised |-> TRUE]
    ELSE Let(copy2(fsx, dirsx, src, real), LAMBDA cp :
            IF cp.raised THEN [fs |-> fsx, raised |-> TRUE]
            ELSE unlink(cp.fs, src))

\* shutil.move(src, dst): [fs, raised].  A destination that is a directory
\* takes the file inside it and raises shutil.Error when the name is taken
\* there; any other destination is renamed over with os.rename, and when
\* that raises the fallback is tried
shutil_move(fsx, dirsx, src, dst) ==
    IF isdir(dirsx, fsx, dst) /\ exists(dirsx, fsx, join(dst, basename(src)))
    THEN [fs |-> fsx, raised |-> TRUE]
    ELSE Let(real_dst(dirsx, fsx, src, dst), LAMBDA real :
            Let(rename(fsx, dirsx, src, real), LAMBDA rn :
                IF rn.raised THEN move_fallback(fsx, dirsx, src, real) ELSE rn))

\* ------------------------------------------------------ helper functions

\* "if not os.path.exists(folder): os.makedirs(folder)": [dirs, raised]
ensure_folder(folder) ==
    IF ~exists(dirs, fs, folder) THEN makedirs(dirs, fs, folder)
    ELSE [dirs |-> dirs, raised |-> FALSE]

\* create_skipped_folder(): [dirs, raised]
create_skipped_folder == ensure_folder(SKIPPED_FOLDER)

\* the result of an organizer: the filesystem afterwards, what was done, and
\* the call that raised, if one did
Result(mv, made, outcome, reason, date, destination, res) ==
    [fs |-> mv.fs, dirs |-> made.dirs, raised |-> mv.raised,
     step |-> IF made.raised THEN "os.makedirs"
              ELSE IF mv.raised THEN "shutil.move" ELSE "",
     outcome |-> outcome, reason |-> reason, date |-> date,
     dest |-> destination, calls |-> res.calls, parse_arg |-> res.parse_arg]

\* the resolvers invoked for a file process_file skips at once: none
NoResolver == [date |-> None, calls |-> <<>>, parse_arg |-> <<>>]

\* shutil.move(file_path, destination) after the folder was seen to: when
\* os.makedirs raised, the exception leaves the organizer and nothing moves
Moved(file_path, folder, destination, outcome, reason, date, res) ==
    Let2(folder, destination, LAMBDA made, p :
        Let(IF made.raised THEN [fs |-> fs, raised |-> TRUE]
            ELSE shutil_move(fs, made.dirs, file_path, p), LAMBDA mv :
            Result(mv, made, outcome, reason, date, p, res)))

\* move_to_skipped(file_path, reason), after the resolvers of res ran
move_to_skipped(file_path, reason, res) ==
    Moved(file_path, create_skipped_folder,
          join(SKIPPED_FOLDER, basename(file_path)), "skipped", reason, None, res)

generate_new_file_name(date_obj, file_ext) == strftime_name(libc, date_obj) \o file_ext

\* ------------------------------------------------------ metadata readers

\* What get_image_exif_date returns for an image whose content holds meta:
\* the DateTimeOriginal tag parsed; None when the image cannot be opened
\* ("open_error"), has no EXIF block ("no_exif") or no such tag ("no_tag"),
\* or the tag does not parse (the except branch)
exif_date(meta) ==
    IF meta.kind = "tag" THEN strptime(meta.value, ":") ELSE None

\* Image.open follows a link to the file it points to
get_image_exif_date(image_path) ==
    exif_date(Catalogue[fs[Resolve(fs, image_path)]].meta)

\* lines 165-167: creation_str without "Z", "T" turned into a blank, cut to
\* 19 characters
normalize_creation(creation_str) ==
    Slice(ReplaceChar(RemoveChar(creation_str, "Z"), "T", " "), 0, 19)

\* What get_video_ffprobe_date returns for a video whose content holds meta:
\* creation_time normalised and parsed; None when ffprobe cannot be launched
\* ("launch_error"), exits non-zero ("nonzero_exit"), prints no JSON
\* ("bad_json") or no creation_time ("no_tag"), or the value does not parse
ffprobe_date(meta) ==
    IF meta.kind = "tag" /\ meta.value # <<>>
    THEN strptime(normalize_creation(meta.value), "-")
    ELSE None

get_video_ffprobe_date(video_path) ==
    ffprobe_date(Catalogue[fs[Resolve(fs, video_path)]].meta)

\* ------------------------------------------------------------- organize

\* lines 196-205 / 223-232: the year folder, the new name, the move
place(file_path, res) ==
    Let2(join(ORGANIZED_FOLDER, strftime_Y(libc, res.date)),
         generate_new_file_name(res.date, splitext(basename(file_path))[2]),
         LAMBDA target_folder, new_file_name :
            Moved(file_path, ensure_folder(target_folder),
                  join(target_folder, new_file_name), "organized", "", res.date, res))

\* a faulty resolver: no fallback to the file name
date_only(file_path, reader, meta_date) ==
    [date |-> meta_date, calls |-> <<reader>>, parse_arg |-> <<>>]

\* lines 186-190 / 214-217: the metadata date, else the date of the file
\* name's stem; calls lists the resolvers invoked, in order
date_or_filename(file_path, reader, meta_date) ==
    IF meta_date = None
    THEN [date |-> parse_date_from_filename(splitext(basename(file_path))[1]),
          calls |-> <<reader, "parse_date_from_filename">>,
          parse_arg |-> splitext(basename(file_path))[1]]
    ELSE [date |-> meta_date, calls |-> <<reader>>, parse_arg |-> <<>>]

resolve(file_path, reader, meta_date) ==
    Let(meta_date, LAMBDA d : date_or_filename(file_path, reader, d))

\* lines 192-205 / 219-232: skip without a date, else place
skip_or_place(file_path, res, reason) ==
    Let(res, LAMBDA r : IF r.date = None THEN move_to_skipped(file_path, reason, r)
                        ELSE place(file_path, r))

organize_images(file_path) ==
    skip_or_place(file_path,
                  resolve(file_path, "get_image_exif_date", get_image_exif_date(file_path)),
                  "No date from EXIF or filename")

organize_videos(file_path) ==
    skip_or_place(file_path,
                  resolve(file_path, "get_video_ffprobe_date",
                          get_video_ffprobe_date(file_path)),
                  "No date from ffprobe or filename")

\* the class process_file gives a path by its lower-cased ending
ClassOf(lower_) ==
    IF \E e \in IMAGE_EXTS : endswith(lower_, e) THEN "image"
    ELSE IF \E e \in VIDEO_EXTS : endswith(lower_, e) THEN "video"
    ELSE "unsupported"

media_class(file_path) ==
    Let(PathText(file_path), LAMBDA text :
        Let(lower(text), LAMBDA lower_ : ClassOf(lower_)))

\* a faulty dispatch: a file that is no video is treated as an image
DispatchImageByDefault(file_path, class) ==
    IF class = "video" THEN organize_videos(file_path)
    ELSE organize_images(file_path)

Dispatch(file_path, class) ==
    IF class = "image" THEN organize_images(file_path)
    ELSE IF class = "video" THEN organize_videos(file_path)
    ELSE move_to_skipped(file_path, "Unsupported file type", NoResolver)

process_file(file_path) ==
    Let(media_class(file_path), LAMBDA class : Dispatch(file_path, class))

\* ----------------------------------------------------------------- main

\* the sequences that list each element of the set S once
Orders(S) ==
    {o \in [1..Cardinality(S) -> S] : \A i, j \in 1..Cardinality(S) : o[i] = o[j] => i = j}

\* a faulty main(): no try/except, an exception of process_file ends the run
propagate(raised) == IF raised THEN "aborted" ELSE "walk"

\* the try/except around process_file: the loop goes on, raised or not
after_process_file(raised) == "walk"

\* what the destination roots are when main() starts: both directories,
\* both absent, or ORGANIZED_FOLDER a directory and SKIPPED_FOLDER a
\* dangling symbolic link
RootStates == {"present", "absent", "dangling"}

\* the link SKIPPED_FOLDER is when it dangles
DanglingRoot == CHOOSE i \in Ids \ SourceIds : PathOf(i) = SKIPPED_FOLDER

\* the state main() starts in, the source tree holding the files of population
Start(population, roots) ==
    /\ present = population
    /\ fs = [p \in {PathOf(i) : i \in population}
                    \cup (IF roots = "dangling" THEN {SKIPPED_FOLDER} ELSE {}) |->
                IF p = SKIPPED_FOLDER THEN DanglingRoot
                ELSE CHOOSE i \in population : PathOf(i) = p]
    /\ dirs = UNION ({Ancestors(SOURCE_FOLDER), Ancestors(SubFolder)}
                 \cup {Ancestors(Catalogue[i].dir) : i \in population}
                 \cup (IF roots = "absent" THEN {}
                       ELSE {Ancestors(ORGANIZED_FOLDER)})
                 \cup (IF roots = "present" THEN {Ancestors(SKIPPED_FOLDER)}
                       ELSE {}))
    /\ pc = "walk"
    /\ stack = <<SOURCE_FOLDER>>
    /\ root = <<>>
    /\ files = <<>>
    /\ seen = {}
    /\ log = <<>>
    /\ filename = <<>>
    /\ parsed = None

\* a run over a source tree of at most MaxFiles files
Init ==
    /\ libc \in {"glibc", "padded"}
    /\ ORGANIZED_FOLDER \in OrganizedChoices
    /\ SKIPPED_FOLDER \in SkippedChoices
    /\ \E population \in Populations, roots \in RootStates :
          Start(population, roots)

\* a run over a source tree of one file, any file of the catalogue
InitOne ==
    /\ libc \in {"glibc", "padded"}
    /\ ORGANIZED_FOLDER \in OrganizedChoices
    /\ SKIPPED_FOLDER \in SkippedChoices
    /\ \E i \in SourceIds, roots \in RootStates : Start({i}, roots)

\* a run in which nothing fails and nothing is misconfigured: no file is
\* denied, both destination roots lie outside the source tree, and neither
\* is a dangling link
InitClean ==
    /\ libc \in {"glibc", "padded"}
    /\ ORGANIZED_FOLDER = << <<"o">> >>
    /\ SKIPPED_FOLDER = << <<"k">> >>
    /\ \E population \in Populations, roots \in {"present", "absent"} :
          /\ \A i \in population : ~Catalogue[i].denied
          /\ Start(population, roots)

\* the file names the parser is tried on alone: up to MaxTokens tokens in a row
InitParse ==
    /\ filename \in Filenames
    /\ parsed = None
    /\ pc = "parse"
    /\ present = {}
    /\ libc = "glibc"
    /\ ORGANIZED_FOLDER = << <<"o">> >>
    /\ SKIPPED_FOLDER = << <<"k">> >>
    /\ dirs = Ancestors(SOURCE_FOLDER)
    /\ fs = [p \in {} |-> 0]
    /\ stack = <<>>
    /\ root = <<>>
    /\ files = <<>>
    /\ seen = {}
    /\ log = <<>>

\* parse_date_from_filename(filename) is called
ParseFilename ==
    /\ pc = "parse"
    /\ parsed' = parse_date_from_filename(filename)
    /\ pc' = "parsed"
    /\ UNCHANGED <<present, libc, ORGANIZED_FOLDER, SKIPPED_FOLDER, dirs, fs, stack,
                   root, files, seen, log, filename>>

\* what os.walk reads of the directory top: the names that are no
\* directories and the subdirectories, each in the order the operating
\* system gives them
Scan(top, names, subdirs) ==
    /\ \E fo \in Orders(names), so \in Orders(subdirs) :
          /\ files' = fo
          /\ stack' = so \o Tail(stack)
    /\ root' = top
    /\ seen' = seen \cup {<<join(top, n), fs[join(top, n)]>> :
                              n \in {m \in names : isfile(fs, join(top, m))}}

\* os.walk yields the next directory
WalkDir ==
    /\ pc = "walk" /\ files = <<>> /\ stack # <<>>
    /\ Scan(Head(stack),
            {basename(p) : p \in {q \in DOMAIN fs : dirname(q) = Head(stack)}},
            {d \in dirs : Len(d) > 0 /\ dirname(d) = Head(stack)})
    /\ UNCHANGED <<present, libc, ORGANIZED_FOLDER, SKIPPED_FOLDER, dirs, fs, pc, log,
                   filename, parsed>>

\* the effect of process_file(file_path) with result r, inside main's try
Apply(file_path, r) ==
    /\ fs' = r.fs
    /\ dirs' = r.dirs
    /\ log' = Append(log, [id |-> fs[file_path], path |-> file_path,
                           class |-> media_class(file_path),
                           raised |-> r.raised, step |-> r.step,
                           outcome |-> r.outcome,
                           reason |-> r.reason, date |-> r.date,
                           dest |-> r.dest, calls |-> r.calls,
                           parse_arg |-> r.parse_arg])
    /\ pc' = after_process_file(r.raised)

\* one round of "for file_name in files" on a regular file
ProcessFile ==
    /\ pc = "walk" /\ files # <<>>
    /\ isfile(fs, join(root, Head(files)))
    /\ \E r \in {process_file(join(root, Head(files)))} :
          Apply(join(root, Head(files)), r)
    /\ files' = Tail(files)
    /\ UNCHANGED <<present, libc, ORGANIZED_FOLDER, SKIPPED_FOLDER, stack, root, seen,
                   filename, parsed>>

\* one round of the loop on a name that is not a regular file
NotAFile ==
    /\ pc = "walk" /\ files # <<>>
    /\ ~isfile(fs, join(root, Head(files)))
    /\ files' = Tail(files)
    /\ UNCHANGED <<present, libc, ORGANIZED_FOLDER, SKIPPED_FOLDER, dirs, fs, pc, stack,
                   root, seen, log, filename, parsed>>

\* os.walk is exhausted: "Done processing all subfolders!"
Finish ==
    /\ pc = "walk" /\ files = <<>> /\ stack = <<>>
    /\ pc' = "done"
    /\ UNCHANGED <<present, libc, ORGANIZED_FOLDER, SKIPPED_FOLDER, dirs, fs, stack, root,
                   files, seen, log, filename, parsed>>

Next == WalkDir \/ ProcessFile \/ NotAFile \/ Finish

Spec == Init /\ [][Next]_vars

SpecOne == InitOne /\ [][Next]_vars

SpecClean == InitClean /\ [][Next]_vars

SpecParse == InitParse /\ [][ParseFilename]_vars

\* main() runs on until it returns: nothing suspends a step that can be taken
FairSpec == Spec /\ WF_vars(Next)

\* ------------------------------------------------------------ properties

\* the entries of the log
Entries == {log[k] : k \in 1..Len(log)}

\* path lies below the directory folder
Under(path, folder) ==
    Len(path) > Len(folder) /\ SubSeq(path, 1, Len(folder)) = folder

\* the paths the file id is stored at
PlacesOf(id) == {q \in DOMAIN fs : fs[q] = id}

\* the entry is about the copy a refused move left at its destination, not
\* about the file the run started with
IsCopy(e) == Catalogue[e.id].denied /\ e.path # PathOf(e.id)

\* the number of calls of process_file on the file id (copy = FALSE) or on
\* the copy a refused move made of it (copy = TRUE)
TimesProcessed(id, copy) ==
    Cardinality({k \in 1..Len(log) : log[k].id = id /\ IsCopy(log[k]) = copy})

\* the metadata reader of a media class
ReaderOf(class) ==
    IF class = "image" THEN "get_image_exif_date" ELSE "get_video_ffprobe_date"

\* what the metadata reader of the entry's class finds in the entry's file
MetaDate(e) ==
    IF e.class = "image" THEN exif_date(Catalogue[e.id].meta)
    ELSE ffprobe_date(Catalogue[e.id].meta)

\* the extensions process_file knows
KnownExts == IMAGE_EXTS \cup VIDEO_EXTS

\* 'YYYY-MM-DD HH.MM.SS' of a date, every field zero-padded to its width
FixedWidthName(d) ==
    ZeroPad(d.year, 4) \o <<"-">> \o ZeroPad(d.month, 2) \o <<"-">>
        \o ZeroPad(d.day, 2) \o <<" ">> \o ZeroPad(d.hour, 2) \o <<".">>
        \o ZeroPad(d.minute, 2) \o <<".">> \o ZeroPad(d.second, 2)

\* the six numbers written at position i as 'YYYYMMDD_HHMMSS' (gap = 1) or
\* 'YYYYMMDDHHMMSS' (gap = 0)
FieldsAt(name, i, gap) ==
    [year |-> ToInt(SubSeq(name, i, i + 3)),
     month |-> ToInt(SubSeq(name, i + 4, i + 5)),
     day |-> ToInt(SubSeq(name, i + 6, i + 7)),
     hour |-> ToInt(SubSeq(name, i + 8 + gap, i + 9 + gap)),
     minute |-> ToInt(SubSeq(name, i + 10 + gap, i + 11 + gap)),
     second |-> ToInt(SubSeq(name, i + 12 + gap, i + 13 + gap))]

\* the numbers are a calendar date and a time of day
IsCalendar(d) == ValidDateTime(d.year, d.month, d.day, d.hour, d.minute, d.second)

\* an occurrence of '8 digits, underscore, 6 digits' at i with calendar fields
ValidA(name, i) == MatchesA(name, i) /\ IsCalendar(FieldsAt(name, i, 1))

\* a run of exactly 14 digits at i (no digit before or after it)
RunOf14(name, i) ==
    /\ MatchesB(name, i)
    /\ (i = 1 \/ name[i - 1] \notin Digits)
    /\ (i + 14 > Len(name) \/ name[i + 14] \notin Digits)

\* the first 14 digits in a row start at i
First14(name, i) == MatchesB(name, i) /\ \A j \in 1..(i - 1) : ~MatchesB(name, j)

\* the first occurrence of '8 digits, underscore, 6 digits' starts at i
FirstA(name, i) == MatchesA(name, i) /\ \A j \in 1..(i - 1) : ~MatchesA(name, j)

\* C1 (as claimed): when main() has finished, every regular file the walk
\* discovered is stored under the organized root or under the skipped root,
\* and none is still at the path it was discovered at.
C1_DiscoveredFilesRelocated ==
    pc = "done" =>
        \A d \in seen :
            /\ \E q \in PlacesOf(d[2]) :
                  Under(q, ORGANIZED_FOLDER) \/ Under(q, SKIPPED_FOLDER)
            /\ d[1] \notin PlacesOf(d[2])

\* C2 (as claimed): within one run no file is handed to process_file more
\* than once.
C2_ProcessedAtMostOnce ==
    \A id \in Ids, copy \in BOOLEAN : TimesProcessed(id, copy) <= 1

\* every path os.walk listed as a regular file has been handed to process_file
AllListedProcessed == \A d \in seen : \E e \in Entries : e.path = d[1]

\* the ways the placement of a file fails: os.makedirs raised, so the
\* directory of the destination could not be created
DirectoryNotCreated(e) ==
    e.raised /\ e.step = "os.makedirs" /\ ~isdir(dirs, fs, dirname(e.dest))

\* shutil.move raised on a destination that holds another file, which the
\* operating system does not let it replace; nothing was moved or copied
DestinationOccupied(e) ==
    /\ e.raised /\ e.step = "shutil.move"
    /\ refused(fs, e.dest) /\ fs[e.dest] # e.id
    /\ e.path \in PlacesOf(e.id)

\* shutil.move raised on a free destination: the operating system refused
\* to take the file from its place, where it still is
MoveFailed(e) ==
    /\ e.raised /\ e.step = "shutil.move"
    /\ refused(fs, e.path) /\ e.dest # e.path
    /\ e.dest \in PlacesOf(e.id)

\* the run has reached its end and every regular file the walk listed has
\* been handed to process_file
RunCompleted == pc = "done" /\ AllListedProcessed

\* C3: once the placement of a file has raised, in any of the three ways
\* above, the run still goes on to its end, and by then every regular file
\* the walk listed, the later ones included, has been handed to
\* process_file.
C3_FailureDoesNotAbort ==
    (\E e \in Entries : e.raised) ~> RunCompleted

\* the run ended after a directory could not be created for one file and
\* the move of a later file failed
C3_Witness ==
    /\ RunCompleted
    /\ \E j, k \in 1..Len(log) :
          j < k /\ DirectoryNotCreated(log[j]) /\ MoveFailed(log[k])

\* the run ended after a move onto an occupied destination raised, and the
\* file listed after it was processed without a failure
C3_OccupiedThenProcessed ==
    /\ RunCompleted
    /\ \E j, k \in 1..Len(log) :
          j < k /\ DestinationOccupied(log[j]) /\ ~log[k].raised

\* the calls of the resolver name made for the file id (copy = FALSE) or for
\* the copy a refused move made of it (copy = TRUE), over the whole run:
\* <<the call of process_file, the position among its resolver calls>>
ResolverCalls(id, copy, name) ==
    {<<k, j>> \in (1..Len(log)) \X (1..2) :
        /\ log[k].id = id /\ IsCopy(log[k]) = copy
        /\ j <= Len(log[k].calls) /\ log[k].calls[j] = name}

\* within one call of process_file on an image or a video the metadata
\* reader is the first resolver called; when it yields a date, no other
\* resolver is called and the destination is the one that date gives; the
\* filename parser is called only after the reader yielded no date
ReaderFirst(e) ==
    /\ Len(e.calls) >= 1 /\ e.calls[1] = ReaderOf(e.class)
    /\ MetaDate(e) # None =>
          /\ e.calls = <<ReaderOf(e.class)>>
          /\ e.outcome = "organized"
          /\ e.date = MetaDate(e)
          /\ e.dest = join(join(ORGANIZED_FOLDER, strftime_Y(libc, MetaDate(e))),
                           strftime_name(libc, MetaDate(e))
                               \o splitext(basename(e.path))[2])
    /\ (\E k \in 1..Len(e.calls) : e.calls[k] = "parse_date_from_filename") =>
          /\ MetaDate(e) = None
          /\ e.calls = <<ReaderOf(e.class), "parse_date_from_filename">>

\* C4 (as claimed): for every image or video file the metadata reader is
\* tried first and, over the run, exactly once; when it yields a date, that
\* date alone gives the destination and the filename parser is not called
\* for the file; the filename parser is called at most once for a file, and
\* only after the reader yielded no date.
C4_MetadataFirstOncePerFile ==
    \A e \in Entries :
        e.class \in {"image", "video"} =>
            /\ ReaderFirst(e)
            /\ Cardinality(ResolverCalls(e.id, IsCopy(e), ReaderOf(e.class))) = 1
            /\ Cardinality(ResolverCalls(e.id, IsCopy(e),
                                         "parse_date_from_filename")) <= 1

\* C5 (as claimed): for a file name that contains an occurrence of '8 digits,
\* underscore, 6 digits' with calendar fields, the parser returns the
\* timestamp of those digits.
C5_AnyValidOccurrence ==
    pc = "parsed" =>
        \A i \in 1..Len(filename) :
            ValidA(filename, i) => parsed = FieldsAt(filename, i, 1)

\* C5 (amended): when the first occurrence of '8 digits, underscore, 6
\* digits' in the file name has calendar fields, the parser returns the
\* timestamp of those digits, whatever 14-digit runs or other digits the
\* name holds elsewhere.
C5_FirstOccurrenceWins ==
    pc = "parsed" =>
        \A i \in 1..Len(filename) :
            (FirstA(filename, i) /\ ValidA(filename, i))
                => parsed = FieldsAt(filename, i, 1)

\* a name with a valid first occurrence and 14 digits in a row elsewhere
\* was parsed to the occurrence's timestamp
C5_Witness ==
    /\ pc = "parsed"
    /\ \E i \in 1..Len(filename) :
          /\ FirstA(filename, i) /\ ValidA(filename, i)
          /\ parsed = FieldsAt(filename, i, 1)
          /\ \E j \in 1..Len(filename) :
                /\ MatchesB(filename, j) /\ IsCalendar(FieldsAt(filename, j, 0))
                /\ FieldsAt(filename, j, 0) # FieldsAt(filename, i, 1)

\* C6 (as claimed): when the pattern-A match has out-of-range fields and the
\* name also contains a run of 14 digits with calendar fields, the parser
\* returns the timestamp of such a run.
C6_AnyValidRun ==
    (/\ pc = "parsed"
     /\ \E i \in 1..Len(filename) :
           FirstA(filename, i) /\ ~IsCalendar(FieldsAt(filename, i, 1))
     /\ \E j \in 1..Len(filename) :
           RunOf14(filename, j) /\ IsCalendar(FieldsAt(filename, j, 0)))
    => \E j \in 1..Len(filename) :
          /\ RunOf14(filename, j) /\ IsCalendar(FieldsAt(filename, j, 0))
          /\ parsed = FieldsAt(filename, j, 0)

\* the first pattern-A match of the name, if any, has out-of-range fields
NoDateFromA(name) ==
    \A i \in 1..Len(name) : FirstA(name, i) => ~IsCalendar(FieldsAt(name, i, 1))

\* the first 14 digits in a row of the name, if any, have out-of-range fields
NoDateFromB(name) ==
    \A j \in 1..Len(name) : First14(name, j) => ~IsCalendar(FieldsAt(name, j, 0))

\* C6 (amended): when the pattern-A match has out-of-range fields and the
\* first 14 digits in a row of the name have calendar fields, the parser
\* returns the timestamp of those 14 digits; it returns no date exactly when
\* neither the pattern-A match nor the first 14 digits in a row give a
\* calendar date.
C6_FallsThroughToFirstRun ==
    pc = "parsed" =>
        /\ \A i \in 1..Len(filename) :
              (FirstA(filename, i) /\ ~IsCalendar(FieldsAt(filename, i, 1))) =>
                  \A j \in 1..Len(filename) :
                      (First14(filename, j) /\ IsCalendar(FieldsAt(filename, j, 0)))
                          => parsed = FieldsAt(filename, j, 0)
        /\ parsed = None <=> (NoDateFromA(filename) /\ NoDateFromB(filename))

\* a name with an out-of-range pattern-A match was parsed to the timestamp
\* of its first 14 digits in a row
C6_Witness ==
    /\ pc = "parsed"
    /\ \E i \in 1..Len(filename) :
          /\ FirstA(filename, i) /\ ~IsCalendar(FieldsAt(filename, i, 1))
          /\ \E j \in 1..Len(filename) :
                /\ First14(filename, j) /\ IsCalendar(FieldsAt(filename, j, 0))
                /\ parsed = FieldsAt(filename, j, 0)

\* C7: a file whose lower-cased name ends in none of the known extensions
\* is sent to SKIPPED_FOLDER under its own name, as "Unsupported file type",
\* without any resolver being called.
C7_UnsupportedSkipsReaders ==
    \A e \in Entries :
        (\A x \in KnownExts : ~endswith(lower(basename(e.path)), x)) =>
            /\ e.calls = <<>>
            /\ e.outcome = "skipped"
            /\ e.reason = "Unsupported file type"
            /\ e.dest = join(SKIPPED_FOLDER, basename(e.path))
            /\ (~e.raised /\ e = log[Len(log)]) => e.dest \in PlacesOf(e.id)

\* an unsupported file whose name holds a date and ".jpg" was skipped
C7_Witness ==
    \E e \in Entries :
        /\ \A x \in KnownExts : ~endswith(lower(basename(e.path)), x)
        /\ parse_date_from_filename(splitext(basename(e.path))[1]) # None
        /\ e.outcome = "skipped" /\ ~e.raised /\ e.calls = <<>>
        /\ e.dest \in PlacesOf(e.id)

\* C8 (as claimed): every organized file goes to
\* organized-root/<4-digit year>/<'YYYY-MM-DD HH.MM.SS' zero-padded><ext>.
C8_FixedWidthDestination ==
    \A e \in Entries :
        e.outcome = "organized" =>
            e.dest = join(join(ORGANIZED_FOLDER, ZeroPad(e.date.year, 4)),
                          FixedWidthName(e.date) \o splitext(basename(e.path))[2])

\* the reader of the entry's file fails or finds nothing
ReaderYieldsNothing(e) == MetaDate(e) = None

\* C9: when the metadata reader of an image or a video fails in any way, the
\* filename parser is then called on the stem of the file's name, and the
\* file is organized by the parser's date, or skipped when it has none.
C9_ReaderFailureFallsBack ==
    \A e \in Entries :
        (e.class \in {"image", "video"} /\ ReaderYieldsNothing(e)) =>
            /\ e.calls = <<ReaderOf(e.class), "parse_date_from_filename">>
            /\ e.parse_arg = splitext(basename(e.path))[1]
            /\ e.date = parse_date_from_filename(splitext(basename(e.path))[1])
            /\ e.outcome = (IF e.date = None THEN "skipped" ELSE "organized")
            /\ e.outcome = "skipped" => e.dest = join(SKIPPED_FOLDER, basename(e.path))
            /\ e.outcome = "organized" => Under(e.dest, ORGANIZED_FOLDER)

\* the kinds of reader failure
FailureKinds ==
    {"open_error", "no_exif", "no_tag", "launch_error", "nonzero_exit", "bad_json"}

\* a file whose reader failed was organized by the date in its name
C9_Witness ==
    \E e \in Entries :
        /\ e.class \in {"image", "video"}
        /\ Catalogue[e.id].meta.kind \in FailureKinds
        /\ ReaderYieldsNothing(e)
        /\ e.outcome = "organized" /\ ~e.raised
        /\ e.dest \in PlacesOf(e.id)

\* C10 (as claimed): no move replaces a file, so the number of regular files
\* in the source, organized and skipped roots stays what it was at the start.
C10_NoFileReplaced ==
    Cardinality({q \in DOMAIN fs : Catalogue[fs[q]].kind = "file"})
        = Cardinality({i \in present : Catalogue[i].kind = "file"})
====
